---------------------------- MODULE Spec2Model ----------------------------
(***************************************************************************)
(* Model of openpeerpower/helpers/intent.py: the intent registry, the      *)
(* dispatch pipeline async_handle, ServiceIntentHandler, and the fuzzy     *)
(* matcher _fuzzymatch.                                                    *)
(*                                                                         *)
(* Strings are sequences of one-character strings.  Python's None is the   *)
(* string "None" where a value of another kind cannot occur.               *)
(***************************************************************************)
EXTENDS Integers, Sequences, FiniteSets, TLC

(***************************************************************************)
(* Bounds of the model.                                                    *)
(***************************************************************************)
MaxQueryLen == 2
MaxKeyLen == 2
MaxItems == 2
MaxDispatch == 1
MaxContexts == 1
MaxCalls == 2
MaxPayloadLen == 2
MaxMessages == 2
MaxAttach == 2
MaxSignals == 4

(***************************************************************************)
(* Characters.  "a"/"A" differ in case only, "b" is another letter, "."    *)
(* and "*" are metacharacters of Python's re syntax.  The names of the     *)
(* state store also hold "B".                                              *)
(***************************************************************************)
Alphabet == {"a", "A", "b", ".", "*"}

Lower(c) == IF c = "A" THEN "a" ELSE IF c = "B" THEN "b" ELSE c

StrsUpTo(n) == UNION {[1..k -> Alphabet] : k \in 0..n}

Min(S) == CHOOSE x \in S : \A y \in S : x <= y

(***************************************************************************)
(* re.compile(".*?".join(name), re.IGNORECASE), line 167-168.  Each        *)
(* character of name becomes one atom of the pattern, with the lazy filler *)
(* ".*?" between atoms.  A "*" in name is a repeat operator with nothing   *)
(* to repeat (first character) or a repeat of the repeat ".*?" (later):    *)
(* re.compile raises re.error in both cases.                               *)
(***************************************************************************)
CompileFails(name) == \E i \in 1..Len(name) : name[i] = "*"

\* One pattern atom against one character of the key, under re.IGNORECASE.
\* "." is the wildcard; the alphabet has no newline.
AtomMatches(atom, ch) == atom = "." \/ Lower(atom) = Lower(ch)

\* The lazy match of the atoms after the first, which matched at position
\* s: end[i, p] is the end (exclusive, 1-based) of the match of atoms
\* i..Len(name) with atom i at a position >= p, or -1 when there is none.
\* ".*?" tries the shortest filler first; a filler character is any character.
LazyEnd(name, key, s) ==
    LET n == Len(name)
        m == Len(key)
        end[i \in 2..(n + 1), p \in 1..(m + 1)] ==
            IF i > n THEN p
            ELSE LET ok == {q \in p..m : AtomMatches(name[i], key[q])
                                          /\ end[i + 1, q + 1] # -1}
                 IN  IF ok = {} THEN -1 ELSE end[i + 1, Min(ok) + 1]
    IN  end[2, s + 1]

\* The match that starts exactly at position s (1-based), or -1.
MatchAt(name, key, s) ==
    IF name = <<>> THEN s
    ELSE IF s <= Len(key) /\ AtomMatches(name[1], key[s])
         THEN LazyEnd(name, key, s)
         ELSE -1

NoMatch == [found |-> FALSE, start |-> 0, len |-> 0]

\* Of the matches ms, one per start position, the leftmost: start is 0-based
\* as match.start(), len is len(match.group()).
Leftmost(ms) ==
    IF ms = {} THEN NoMatch
    ELSE LET m == CHOOSE x \in ms : \A o \in ms : x.s <= o.s
         IN  [found |-> TRUE, start |-> m.s - 1, len |-> m.e - m.s]

\* regex.search(key), line 170: the match at the leftmost start position.
RegexSearch(name, key) ==
    Leftmost({m \in {[s |-> s, e |-> MatchAt(name, key, s)] :
                        s \in 1..(Len(key) + 1)} : m.e # -1})

(***************************************************************************)
(* Entity states of the state store: the fields the module reads.          *)
(***************************************************************************)
NoState == [entity_id |-> "None", name |-> <<>>]

\* Tuple order of Python's sorted() on (len, start, idx, item): idx is
\* unique, so the item itself is never compared.
TupleLess(x, y) ==
    \/ x.len < y.len
    \/ x.len = y.len /\ x.start < y.start
    \/ x.len = y.len /\ x.start = y.start /\ x.idx < y.idx

\* _fuzzymatch(name, items, key) with key = lambda state: state.name.
\* kind "raise" is re.error out of re.compile; otherwise the returned item,
\* with found = FALSE for None.  idx is the 0-based enumerate() index.
FuzzyNone == [kind |-> "return", found |-> FALSE, idx |-> 0, item |-> NoState]
FuzzyRaise == [kind |-> "raise", found |-> FALSE, idx |-> 0, item |-> NoState]

\* The tuple appended at line 173 for the item at 0-based index idx.
MatchTuple(r, idx) ==
    [found |-> r.found, len |-> r.len, start |-> r.start, idx |-> idx]

\* matches after the loop of lines 169-173.
FuzzyMatches(name, items) ==
    {t \in {MatchTuple(RegexSearch(name, items[i].name), i - 1) :
               i \in 1..Len(items)} : t.found}

\* sorted(matches)[0][3] if matches else None, line 175.
SortedFirst(matches, items) ==
    IF matches = {} THEN FuzzyNone
    ELSE LET best == CHOOSE m \in matches :
                        \A o \in matches : o = m \/ TupleLess(m, o)
         IN  [kind |-> "return", found |-> TRUE, idx |-> best.idx,
              item |-> items[best.idx + 1]]

fuzzymatch(name, items) ==
    IF CompileFails(name) THEN FuzzyRaise
    ELSE SortedFirst(FuzzyMatches(name, items), items)

(***************************************************************************)
(* Exceptions: the class and the place that raised the object.  Two        *)
(* exception values are the same object only if both fields agree.         *)
(***************************************************************************)
NoExc == [type |-> "None", site |-> "None"]

Exc(t, s) == [type |-> t, site |-> s]

\* isinstance(err, vol.Invalid): vol.MultipleInvalid derives from vol.Invalid.
IsInvalid(t) == t \in {"Invalid", "MultipleInvalid"}

\* isinstance(err, IntentHandleError), line 93.
IsIntentHandleError(t) == t = "IntentHandleError"

\* isinstance(err, Exception): KeyboardInterrupt, SystemExit and
\* GeneratorExit derive from BaseException only.
IsException(t) == t \notin {"KeyboardInterrupt"}

\* The intent error taxonomy, lines 81-98.
Taxonomy == {"UnknownIntent", "InvalidSlotInfo", "IntentHandleError",
             "IntentUnexpectedError"}

(***************************************************************************)
(* Values of a slot: a Python string or None.                              *)
(***************************************************************************)
PyNone == [none |-> TRUE, str |-> <<>>]

PyStr(s) == [none |-> FALSE, str |-> s]

\* A slots dict over the keys the model uses; has = FALSE is an absent key.
\* hasValue tells whether the slot's dict has the "value" sub-key.
SlotKeys == {"name", "extra"}

NoSlot == [has |-> FALSE, hasValue |-> FALSE, value |-> PyNone]

Slot(v) == [has |-> TRUE, hasValue |-> TRUE, value |-> v]

EmptySlots == [k \in SlotKeys |-> NoSlot]

\* The slots argument: Python None, or a dict.
SlotsNone == [none |-> TRUE, dict |-> EmptySlots]

SlotsDict(d) == [none |-> FALSE, dict |-> d]

(***************************************************************************)
(* Handlers handed to async_register.  cls is the class whose async_handle *)
(* runs: ServiceIntentHandler (lines 178-210), the base IntentHandler      *)
(* (lines 125-161), or a subclass written by an integration, "Custom",     *)
(* whose body is not part of this module.  slot_schema is the set of       *)
(* required slot keys the handler declares, with declares = FALSE for None.*)
(***************************************************************************)
INTENT_TURN_OFF == "OppTurnOff"
INTENT_TURN_ON == "OppTurnOn"
INTENT_TOGGLE == "OppToggle"

NoHandler == "None"

Handlers ==
    [ on     |-> [cls |-> "ServiceIntentHandler", intent_type |-> INTENT_TURN_ON,
                  declares |-> TRUE, slot_schema |-> {"name"},
                  domain |-> "light", service |-> "turn_on",
                  speech |-> <<"Turned ", "{}", " on">>],
      on2    |-> [cls |-> "ServiceIntentHandler", intent_type |-> INTENT_TURN_ON,
                  declares |-> TRUE, slot_schema |-> {"name"},
                  domain |-> "switch", service |-> "turn_on",
                  speech |-> <<"Switched on ", "{}">>],
      toggle |-> [cls |-> "Custom", intent_type |-> INTENT_TOGGLE,
                  declares |-> TRUE, slot_schema |-> {"name"},
                  domain |-> "None", service |-> "None",
                  speech |-> <<>>],
      base   |-> [cls |-> "IntentHandler", intent_type |-> "None",
                  declares |-> FALSE, slot_schema |-> {},
                  domain |-> "None", service |-> "None",
                  speech |-> <<>>] ]

HandlerIds == DOMAIN Handlers

\* Keys a registry dict can hold: the intent types, and None.
TypeKeys == {INTENT_TURN_ON, INTENT_TURN_OFF, INTENT_TOGGLE, "None"}

(***************************************************************************)
(* async_register, lines 30-45.  data is opp.data[DATA_KEY]: present says  *)
(* whether the key exists, map is the dict (NoHandler: no such key).       *)
(***************************************************************************)
EmptyMap == [t \in TypeKeys |-> NoHandler]

NoData == [present |-> FALSE, map |-> EmptyMap]

\* async_register with setdefault in place of the assignment of line 45: a
\* type that has a handler keeps it.
async_register_KeepFirst(data, h) ==
    LET intents == IF data.present THEN data.map ELSE EmptyMap
        t == Handlers[h].intent_type
    IN  IF t = "None"
        THEN [data |-> [present |-> TRUE, map |-> intents],
              raised |-> Exc("AssertionError", "async_register"),
              replaced |-> NoHandler]
        ELSE [data |-> [present |-> TRUE,
                        map |-> IF intents[t] = NoHandler
                                THEN [intents EXCEPT ![t] = h] ELSE intents],
              raised |-> NoExc, replaced |-> intents[t]]

\* async_register with the assert of line 38 after the assignment of line 45.
async_register_LateAssert(data, h) ==
    LET intents == IF data.present THEN data.map ELSE EmptyMap
        t == Handlers[h].intent_type
    IN  [data |-> [present |-> TRUE, map |-> [intents EXCEPT ![t] = h]],
         raised |-> IF t = "None" THEN Exc("AssertionError", "async_register")
                    ELSE NoExc,
         replaced |-> intents[t]]

\* replaced is the handler the warning of lines 40-43 is about, if any.
async_register(data, h) ==
    LET intents == IF data.present THEN data.map ELSE EmptyMap
    IN  IF Handlers[h].intent_type = "None"
        THEN [data |-> [present |-> TRUE, map |-> intents],
              raised |-> Exc("AssertionError", "async_register"),
              replaced |-> NoHandler]
        ELSE [data |-> [present |-> TRUE,
                        map |-> [intents EXCEPT ![Handlers[h].intent_type] = h]],
              raised |-> NoExc,
              replaced |-> intents[Handlers[h].intent_type]]

\* opp.data.get(DATA_KEY, {}).get(intent_type), line 58.
Lookup(data, intent_type) ==
    IF data.present THEN data.map[intent_type] ELSE NoHandler

(***************************************************************************)
(* The except clauses of async_handle, lines 72-78: what the caller gets   *)
(* for an exception err that left handler.async_handle.                    *)
(***************************************************************************)
\* The except clauses with "from err" left out at line 78.
PipelineRaise_NoCause(err) ==
    IF IsInvalid(err.type)
    THEN [exc |-> Exc("InvalidSlotInfo", "async_handle"), cause |-> err]
    ELSE IF IsIntentHandleError(err.type)
    THEN [exc |-> err, cause |-> NoExc]
    ELSE IF IsException(err.type)
    THEN [exc |-> Exc("IntentUnexpectedError", "async_handle"), cause |-> NoExc]
    ELSE [exc |-> err, cause |-> NoExc]

\* The except clauses without the clause of lines 75-76.
PipelineRaise_NoReraise(err) ==
    IF IsInvalid(err.type)
    THEN [exc |-> Exc("InvalidSlotInfo", "async_handle"), cause |-> err]
    ELSE IF IsException(err.type)
    THEN [exc |-> Exc("IntentUnexpectedError", "async_handle"), cause |-> err]
    ELSE [exc |-> err, cause |-> NoExc]

PipelineRaise(err) ==
    IF IsInvalid(err.type)
    THEN [exc |-> Exc("InvalidSlotInfo", "async_handle"), cause |-> err]
    ELSE IF IsIntentHandleError(err.type)
    THEN [exc |-> err, cause |-> NoExc]
    ELSE IF IsException(err.type)
    THEN [exc |-> Exc("IntentUnexpectedError", "async_handle"), cause |-> err]
    ELSE [exc |-> err, cause |-> NoExc]

(***************************************************************************)
(* IntentHandler.async_validate_slots, lines 138-153.                      *)
(***************************************************************************)
\* cv.string: None is rejected, a string is returned as it is.
cv_string(v) == [ok |-> ~v.none, value |-> v]

\* The schema built at lines 145-151 applied to a slots dict: every declared
\* key is Required and its value is checked by SLOT_SCHEMA.extend({"value":
\* validator}), where "value" is an optional key; extra keys are allowed at
\* both levels and kept.
\* The schema with its declared keys Optional instead of Required.
SchemaAccepts_Optional(schema, slots) ==
    \A k \in schema :
        (slots[k].has /\ slots[k].hasValue) => cv_string(slots[k].value).ok

SchemaAccepts(schema, slots) ==
    \A k \in schema :
        /\ slots[k].has
        /\ slots[k].hasValue => cv_string(slots[k].value).ok

\* The schema of lines 145-151 with extra=vol.REMOVE_EXTRA: undeclared keys
\* are dropped from the result.
SchemaOut_RemoveExtra(schema, slots) ==
    [k \in SlotKeys |->
        IF k \notin schema THEN NoSlot
        ELSE IF slots[k].hasValue
        THEN [slots[k] EXCEPT !.value = cv_string(slots[k].value).value]
        ELSE slots[k]]

\* The dict the schema returns for slots it accepts: under declared keys the
\* slot with its "value" as the validator returned it, and every other key
\* with the value it came with (extra=vol.ALLOW_EXTRA, line 150).
SchemaOut(schema, slots) ==
    [k \in SlotKeys |->
        IF k \in schema /\ slots[k].hasValue
        THEN [slots[k] EXCEPT !.value = cv_string(slots[k].value).value]
        ELSE slots[k]]

async_validate_slots(h, slots) ==
    IF ~Handlers[h].declares
    THEN [raised |-> NoExc, slots |-> slots]
    ELSE IF SchemaAccepts(Handlers[h].slot_schema, slots)
         THEN [raised |-> NoExc,
               slots |-> SchemaOut(Handlers[h].slot_schema, slots)]
         ELSE [raised |-> Exc("MultipleInvalid", "async_validate_slots"),
               slots |-> slots]

(***************************************************************************)
(* IntentHandler.async_can_handle, lines 133-136.  The platforms attribute *)
(* of a handler: set = FALSE when neither the handler's class nor its      *)
(* __init__ assigns it, so that the lookup finds the attribute of the      *)
(* class IntentHandler, line 131.                                          *)
(***************************************************************************)
PlatformsUnset == [set |-> FALSE, none |-> FALSE, list |-> {}]

PlatformsNone == [set |-> TRUE, none |-> TRUE, list |-> {}]

PlatformsList(l) == [set |-> TRUE, none |-> FALSE, list |-> l]

\* platforms: Optional[Iterable[str]] = [], line 131.
ClassPlatforms == PlatformsList({})

\* self.platforms for a handler whose own attribute is p.
SelfPlatforms(p) == IF p.set THEN p ELSE ClassPlatforms

\* Line 136, p being the handler's own platforms attribute.
async_can_handle(p, platform) ==
    SelfPlatforms(p).none \/ platform \in SelfPlatforms(p).list

(***************************************************************************)
(* async_match_state, lines 101-115, with states = opp.states.async_all(). *)
(***************************************************************************)
\* Lines 112-115 for the result m of _fuzzymatch.
StateOrRaise(m) ==
    IF m.kind = "raise"
    THEN [raised |-> Exc("re.error", "_fuzzymatch"), state |-> NoState]
    ELSE IF ~m.found
    THEN [raised |-> Exc("IntentHandleError", "async_match_state"),
          state |-> NoState]
    ELSE [raised |-> NoExc, state |-> m.item]

async_match_state(name, states) == StateOrRaise(fuzzymatch(name, states))

(***************************************************************************)
(* str.format with one positional argument, line 209.  A template is a     *)
(* sequence of pieces, "{}" being a replacement field; the result is the   *)
(* pieces with every field replaced by the argument's characters.  A       *)
(* second field has no argument: IndexError.                               *)
(***************************************************************************)
RECURSIVE Fields(_)
Fields(t) ==
    IF t = <<>> THEN 0
    ELSE (IF Head(t) = "{}" THEN 1 ELSE 0) + Fields(Tail(t))

RECURSIVE Substitute(_, _)
Substitute(t, arg) ==
    IF t = <<>> THEN <<>>
    ELSE (IF Head(t) = "{}" THEN arg ELSE <<Head(t)>>) \o Substitute(Tail(t), arg)

Format(t, arg) ==
    IF Fields(t) > 1
    THEN [raised |-> Exc("IndexError", "format"), text |-> <<>>]
    ELSE [raised |-> NoExc, text |-> Substitute(t, arg)]

(***************************************************************************)
(* IntentResponse, lines 241-267.  speech and card are dicts keyed by      *)
(* type; set = FALSE is an absent key.                                     *)
(***************************************************************************)
SPEECH_TYPE_PLAIN == "plain"
SPEECH_TYPE_SSML == "ssml"

SpeechTypes == {SPEECH_TYPE_PLAIN, SPEECH_TYPE_SSML}

CardTypes == {"simple", "link"}

NoSpeech == [set |-> FALSE, speech |-> <<>>, extra_data |-> "None"]

NoCard == [set |-> FALSE, title |-> <<>>, content |-> <<>>]

\* IntentResponse(intent); created = FALSE stands for no response object.
NoResponse ==
    [created |-> FALSE, intent |-> 0,
     speech |-> [t \in SpeechTypes |-> NoSpeech],
     card |-> [t \in CardTypes |-> NoCard]]

IntentResponse(intent) == [NoResponse EXCEPT !.created = TRUE, !.intent = intent]

\* async_set_speech that builds the speech dict anew with the one entry.
async_set_speech_OnlyEntry(r, speech, speech_type, extra_data) ==
    [r EXCEPT !.speech =
        [t \in SpeechTypes |->
            IF t = speech_type
            THEN [set |-> TRUE, speech |-> speech, extra_data |-> extra_data]
            ELSE NoSpeech]]

async_set_speech(r, speech, speech_type, extra_data) ==
    [r EXCEPT !.speech[speech_type] =
        [set |-> TRUE, speech |-> speech, extra_data |-> extra_data]]

async_set_card(r, title, content, card_type) ==
    [r EXCEPT !.card[card_type] =
        [set |-> TRUE, title |-> title, content |-> content]]

\* as_dict(), line 267: a dict of two keys whose values are the response's
\* own speech and card dicts.
as_dict(r) == [speech |-> r.speech, card |-> r.card]

(***************************************************************************)
(* Contexts.  A context given by the caller has fresh = FALSE; Context()   *)
(* at line 64 makes a new one, numbered by the count of contexts made.     *)
(***************************************************************************)
NoContext == [fresh |-> FALSE, id |-> 0]

CallerContext(n) == [fresh |-> FALSE, id |-> n]

FreshContext(n) == [fresh |-> TRUE, id |-> n]

(***************************************************************************)
(* ServiceIntentHandler.async_handle, lines 195-210, up to the await of    *)
(* the service call (lines 197-206).  trace lists the steps taken in       *)
(* order; call tells whether opp.services.async_call was invoked.          *)
(***************************************************************************)
Stopped(tr, val, err) ==
    [trace |-> tr, validated |-> val, raised |-> err,
     state |-> NoState, call |-> FALSE]

\* Lines 201-206 for the result m of async_match_state; tr and val are the
\* steps taken so far and whether the slots were validated.
CallService(m, tr, val) ==
    IF m.raised # NoExc
    THEN Stopped(tr \o <<"match">>, val, m.raised)
    ELSE [trace |-> tr \o <<"match", "call">>, validated |-> val,
          raised |-> NoExc, state |-> m.state, call |-> TRUE]

\* Line 199: slots["name"]["value"] is looked up and handed to
\* async_match_state, where ".*?".join(name) needs a string.
MatchName(slots, states, tr, val) ==
    IF ~(slots["name"].has /\ slots["name"].hasValue)
    THEN Stopped(tr, val, Exc("KeyError", "ServiceIntentHandler"))
    ELSE IF slots["name"].value.none
    THEN Stopped(tr \o <<"match">>, val, Exc("TypeError", "_fuzzymatch"))
    ELSE CallService(async_match_state(slots["name"].value.str, states),
                     tr, val)

\* Line 198 and what follows it, v being what async_validate_slots did.
Validated(v, states) ==
    IF v.raised # NoExc
    THEN Stopped(<<"validate">>, FALSE, v.raised)
    ELSE MatchName(v.slots, states, <<"validate">>, TRUE)

\* ServiceIntentHandler.async_handle without line 198: the slots of the
\* intent are used as they came.
ServiceHandleBegin_NoValidate(h, slots, states) ==
    MatchName(slots, states, <<>>, FALSE)

ServiceHandleBegin(h, slots, states) ==
    Validated(async_validate_slots(h, slots), states)

\* Lines 208-210: the response, f being the formatted speech.
Respond(d, f) ==
    IF f.raised # NoExc
    THEN [trace |-> <<"call_done", "response">>, raised |-> f.raised,
          response |-> NoResponse]
    ELSE [trace |-> <<"call_done", "response", "speech">>, raised |-> NoExc,
          response |-> async_set_speech(IntentResponse(d), f.text,
                                        SPEECH_TYPE_PLAIN, "None")]

\* Lines 201-210 from the moment the awaited service call ends: result is
\* "ok" or the class of the exception the call raised.
ServiceHandleEnd(h, d, state, result) ==
    IF result # "ok"
    THEN [trace |-> <<"call_raised">>, raised |-> Exc(result, "async_call"),
          response |-> NoResponse]
    ELSE Respond(d, Format(Handlers[h].speech, state.name))

(***************************************************************************)
(* State.                                                                  *)
(*   data       opp.data[DATA_KEY], the registry                           *)
(*   states     opp.states.async_all(), the state store (it does not       *)
(*              change while the intents are handled)                      *)
(*   disp       the calls of async_handle, one record per call             *)
(*   calls      the calls of opp.services.async_call, in order             *)
(*   ctx_count  how many Context() objects were made                       *)
(*   last_reg   the last call of async_register: what it raised, the       *)
(*              handler it replaced and, if it raised, the registry before *)
(*              the call                                                   *)
(*   registered per intent type, the handler of the last async_register    *)
(*              that returned normally                                     *)
(***************************************************************************)
VARIABLES data, states, disp, calls, ctx_count, last_reg, registered

dvars == <<data, states, disp, calls, ctx_count, last_reg, registered>>

Dispatches == 1..MaxDispatch

NoOutcome == [kind |-> "none", exc |-> NoExc, cause |-> NoExc]

Returned == [kind |-> "return", exc |-> NoExc, cause |-> NoExc]

Raised(r) == [kind |-> "raise", exc |-> r.exc, cause |-> r.cause]

Idle ==
    [pc |-> "idle", platform |-> "None", intent_type |-> "None",
     slots |-> SlotsNone, ctx_arg |-> NoContext,
     handler |-> NoHandler, expected |-> NoHandler, context |-> NoContext,
     validated |-> FALSE, state |-> NoState, trace |-> <<>>,
     thrown |-> NoExc, outcome |-> NoOutcome, response |-> NoResponse]

\* The state store of the model: entities with their display names.
Stores ==
    { <<[entity_id |-> "light.ab", name |-> <<"a", "b">>],
        [entity_id |-> "light.ba", name |-> <<"B", "a">>]>> }

\* The arguments async_handle is called with.
Platforms == {"conversation"}

IntentTypes == {INTENT_TURN_ON, INTENT_TOGGLE}

NameSlot(v) == [EmptySlots EXCEPT !["name"] = Slot(v)]

SlotsArgs ==
    { SlotsNone,
      SlotsDict([NameSlot(PyStr(<<"a">>)) EXCEPT !["extra"] = Slot(PyStr(<<"b">>))]),
      SlotsDict(NameSlot(PyStr(<<"b", "b">>))),
      SlotsDict(NameSlot(PyStr(<<".">>))),
      SlotsDict(NameSlot(PyStr(<<"*">>))),
      SlotsDict(NameSlot(PyNone)),
      SlotsDict([EmptySlots EXCEPT !["name"] =
                    [has |-> TRUE, hasValue |-> FALSE, value |-> PyNone]]) }

ContextArgs == {NoContext, CallerContext(1)}

\* What the body of a Custom handler, and the service call, can end with.
CustomRaises == {"Invalid", "IntentHandleError", "NotImplementedError",
                 "KeyboardInterrupt"}

ServiceRaises == {"Invalid", "ServiceNotFound"}

DInit ==
    /\ data = NoData
    /\ states \in Stores
    /\ disp = [d \in Dispatches |-> Idle]
    /\ calls = <<>>
    /\ ctx_count = 0
    /\ last_reg = [raised |-> NoExc, replaced |-> NoHandler, before |-> NoData]
    /\ registered = EmptyMap

\* async_register(opp, handler).
Register(h) ==
    LET r == async_register(data, h)
    IN  /\ data' = r.data
        /\ last_reg' = [raised |-> r.raised, replaced |-> r.replaced,
                         before |-> IF r.raised = NoExc THEN NoData ELSE data]
        /\ registered' = IF r.raised = NoExc
                         THEN [registered EXCEPT ![Handlers[h].intent_type] = h]
                         ELSE registered
        /\ UNCHANGED <<states, disp, calls, ctx_count>>

\* slots or {}, line 66.
SlotsOrEmpty(slots) == IF slots.none THEN EmptySlots ELSE slots.dict

\* The Intent of line 66 and the handler found at line 58, as a record of
\* the dispatch.
Started(platform, intent_type, slots, context, h, ctx) ==
    [Idle EXCEPT !.platform = platform, !.intent_type = intent_type,
                 !.slots = slots, !.ctx_arg = context, !.handler = h,
                 !.expected = registered[intent_type], !.context = ctx]

\* Lines 72-78: the dispatch rec ends with the handler having raised err.
Failed(rec, err) ==
    [rec EXCEPT !.pc = "done", !.thrown = err,
                !.outcome = Raised(PipelineRaise(err))]

\* async_handle without the test of lines 60-61: None.async_handle raises
\* AttributeError inside the try, which line 78 wraps.
FailUnknown_NoTest(d, rec) ==
    /\ disp' = [disp EXCEPT ![d] =
          [rec EXCEPT !.pc = "done", !.context = NoContext,
              !.thrown = Exc("AttributeError", "async_handle"),
              !.outcome = Raised([exc |-> Exc("IntentUnexpectedError", "async_handle"),
                                  cause |-> Exc("AttributeError", "async_handle")])]]
    /\ UNCHANGED <<calls, ctx_count>>

\* Line 61.
FailUnknown(d, rec) ==
    /\ disp' = [disp EXCEPT ![d] =
          [rec EXCEPT !.pc = "done", !.context = NoContext,
              !.outcome = Raised([exc |-> Exc("UnknownIntent", "async_handle"),
                                  cause |-> NoExc])]]
    /\ UNCHANGED <<calls, ctx_count>>

\* ServiceStep with the context argument of async_handle, not the context
\* of the Intent, handed to the service call.
ServiceStep_RawContext(d, rec, b) ==
    IF b.call
    THEN /\ disp' = [disp EXCEPT ![d] =
              [rec EXCEPT !.pc = "awaiting", !.validated = b.validated,
                          !.state = b.state, !.trace = <<"handle">> \o b.trace]]
         /\ calls' = Append(calls,
              [d |-> d, domain |-> Handlers[rec.handler].domain,
               service |-> Handlers[rec.handler].service,
               entity_id |-> b.state.entity_id, context |-> rec.ctx_arg])
    ELSE /\ disp' = [disp EXCEPT ![d] =
              Failed([rec EXCEPT !.validated = b.validated,
                                 !.trace = <<"handle">> \o b.trace], b.raised)]
         /\ UNCHANGED calls

\* Line 70 for a ServiceIntentHandler, b being its async_handle up to the
\* await.
ServiceStep(d, rec, b) ==
    IF b.call
    THEN /\ disp' = [disp EXCEPT ![d] =
              [rec EXCEPT !.pc = "awaiting", !.validated = b.validated,
                          !.state = b.state, !.trace = <<"handle">> \o b.trace]]
         /\ calls' = Append(calls,
              [d |-> d, domain |-> Handlers[rec.handler].domain,
               service |-> Handlers[rec.handler].service,
               entity_id |-> b.state.entity_id, context |-> rec.context])
    ELSE /\ disp' = [disp EXCEPT ![d] =
              Failed([rec EXCEPT !.validated = b.validated,
                                 !.trace = <<"handle">> \o b.trace], b.raised)]
         /\ UNCHANGED calls

\* Line 70 for the other handlers: IntentHandler.async_handle, lines 155-157,
\* or the body of a Custom handler, which ends with body.
OtherStep(d, rec, body) ==
    /\ disp' = [disp EXCEPT ![d] =
          IF Handlers[rec.handler].cls = "IntentHandler"
          THEN Failed([rec EXCEPT !.trace = <<"handle">>],
                      Exc("NotImplementedError", "IntentHandler"))
          ELSE IF body # "ok"
          THEN Failed([rec EXCEPT !.trace = <<"handle">>], Exc(body, "handler"))
          ELSE [rec EXCEPT !.pc = "done", !.trace = <<"handle">>,
                           !.outcome = Returned,
                           !.response = IntentResponse(d)]]
    /\ UNCHANGED calls

HandleWith(d, rec, body, fresh) ==
    IF rec.handler = NoHandler
    THEN FailUnknown(d, rec)
    ELSE /\ ctx_count' = IF fresh THEN ctx_count + 1 ELSE ctx_count
         /\ IF Handlers[rec.handler].cls = "ServiceIntentHandler"
            THEN ServiceStep(d, rec,
                     ServiceHandleBegin(rec.handler, SlotsOrEmpty(rec.slots),
                                        states))
            ELSE OtherStep(d, rec, body)

\* async_handle, lines 58-78, from the call to the first suspension: the
\* await of the service call in ServiceIntentHandler.  body is what the body
\* of a Custom handler ends with.
\* async_handle with one Context() made when the module is loaded and used
\* for every call without a context, in place of lines 63-64.
async_handle_SharedContext(d, platform, intent_type, slots, context, body) ==
    /\ disp[d].pc = "idle"
    /\ HandleWith(d,
          Started(platform, intent_type, slots, context,
                  Lookup(data, intent_type),
                  IF context = NoContext THEN FreshContext(1) ELSE context),
          body, context = NoContext)
    /\ UNCHANGED <<data, states, last_reg, registered>>

async_handle(d, platform, intent_type, slots, context, body) ==
    /\ disp[d].pc = "idle"
    /\ HandleWith(d,
          Started(platform, intent_type, slots, context,
                  Lookup(data, intent_type),
                  IF context = NoContext THEN FreshContext(ctx_count + 1)
                  ELSE context),
          body, context = NoContext)
    /\ UNCHANGED <<data, states, last_reg, registered>>

\* Only the body of a Custom handler has an end to choose.
HasBody(h) == h # NoHandler /\ Handlers[h].cls = "Custom"

\* A call of async_handle, as long as the contexts made stay within the
\* bound.
Dispatch(d, platform, intent_type, slots, context, body) ==
    /\ disp[d].pc = "idle"
    /\ body # "ok" => HasBody(Lookup(data, intent_type))
    /\ (context = NoContext /\ Lookup(data, intent_type) # NoHandler)
          => ctx_count < MaxContexts
    /\ async_handle(d, platform, intent_type, slots, context, body)

\* The rest of async_handle for what ServiceHandleEnd did.
Finished(rec, e) ==
    IF e.raised # NoExc
    THEN Failed([rec EXCEPT !.trace = @ \o e.trace], e.raised)
    ELSE [rec EXCEPT !.pc = "done", !.trace = @ \o e.trace,
                     !.response = e.response, !.outcome = Returned]

\* ServiceCallEnds with the handler looked up in the registry anew when the
\* call ends, not the one the dispatch started with.
ServiceCallEnds_Relookup(d, result) ==
    /\ disp[d].pc = "awaiting"
    /\ disp' = [disp EXCEPT ![d] =
          Finished(disp[d], ServiceHandleEnd(Lookup(data, disp[d].intent_type),
                                             d, disp[d].state, result))]
    /\ UNCHANGED <<data, states, calls, ctx_count, last_reg, registered>>

\* The awaited opp.services.async_call of dispatch d ends, and the rest of
\* ServiceIntentHandler.async_handle and of async_handle runs.
ServiceCallEnds(d, result) ==
    /\ disp[d].pc = "awaiting"
    /\ disp' = [disp EXCEPT ![d] =
          Finished(disp[d], ServiceHandleEnd(disp[d].handler, d,
                                             disp[d].state, result))]
    /\ UNCHANGED <<data, states, calls, ctx_count, last_reg, registered>>

(***************************************************************************)
(* The matcher applied to bounded inputs.                                  *)
(***************************************************************************)
VARIABLES f_pc, f_name, f_items, f_result

fvars == <<f_pc, f_name, f_items, f_result>>

FuzzyItems ==
    UNION {{[i \in 1..k |-> [entity_id |-> ToString(i), name |-> ks[i]]] :
              ks \in [1..k -> StrsUpTo(MaxKeyLen)]} : k \in 0..MaxItems}

FuzzyStart ==
    /\ f_pc = "call"
    /\ f_name \in StrsUpTo(MaxQueryLen)
    /\ f_items \in FuzzyItems
    /\ f_result = FuzzyNone

FuzzyCall ==
    /\ f_pc = "call"
    /\ f_result' = fuzzymatch(f_name, f_items)
    /\ f_pc' = "done"
    /\ UNCHANGED <<f_name, f_items>>

\* The caller of async_handle is done with the result of dispatch d: the
\* record, and what was observed of its service call, are dropped.
RECURSIVE Without(_, _)
Without(cs, d) ==
    IF cs = <<>> THEN <<>>
    ELSE (IF Head(cs).d = d THEN <<>> ELSE <<Head(cs)>>) \o Without(Tail(cs), d)

Forget(d) ==
    /\ disp[d].pc = "done"
    /\ disp' = [disp EXCEPT ![d] = Idle]
    /\ calls' = Without(calls, d)
    /\ UNCHANGED <<data, states, ctx_count, last_reg, registered>>

(***************************************************************************)
(* Several calls of async_handle in flight at once: the callers in         *)
(* Concurrent dispatch to the service handlers of one intent type, each    *)
(* suspended at the await of its service call, while handlers are          *)
(* registered.                                                             *)
(***************************************************************************)
Concurrent == 1..(MaxDispatch + 1)

ConcurrentHandlers == {"on", "on2"}

\* "a" is matched by light.ab, "ba" by light.ba.
ConcurrentSlots ==
    { SlotsDict(NameSlot(PyStr(<<"a">>))),
      SlotsDict(NameSlot(PyStr(<<"b", "a">>))) }

ConcurrentStart ==
    /\ data = NoData
    /\ states \in Stores
    /\ disp = [d \in Concurrent |-> Idle]
    /\ calls = <<>>
    /\ ctx_count = 0
    /\ last_reg = [raised |-> NoExc, replaced |-> NoHandler, before |-> NoData]
    /\ registered = EmptyMap

\* A call of async_handle while a handler is registered, every caller
\* without a context getting a Context() of its own.
DispatchConcurrent(d, slots, context) ==
    /\ Lookup(data, INTENT_TURN_ON) # NoHandler
    /\ context = NoContext => ctx_count < Cardinality(Concurrent)
    /\ async_handle(d, "conversation", INTENT_TURN_ON, slots, context, "ok")

(***************************************************************************)
(* An IntentResponse under calls of its setters, lines 241-267.            *)
(*   r_resp    the response object                                         *)
(*   r_dict    what as_dict() returned last; its two values are the        *)
(*             response's own dicts, so a later setter shows through it    *)
(*   r_speech  per speech type, the arguments of the last async_set_speech *)
(*   r_card    per card type, the arguments of the last async_set_card     *)
(*   r_call    the last setter call: its kind, its type, and the response  *)
(*             as it was before the call                                   *)
(***************************************************************************)
VARIABLES r_resp, r_dict, r_speech, r_card, r_call

rvars == <<r_resp, r_dict, r_speech, r_card, r_call>>

SpeechTexts == {<<"a">>, <<"b">>}

ExtraData == {"None", "x"}

CardTitles == {<<"t">>, <<"u">>}

CardContents == {<<"c">>}

NoDict == [made |-> FALSE, dict |-> as_dict(NoResponse)]

NoCall == [kind |-> "none", type |-> "None", before |-> NoResponse]

ResponseIdle ==
    /\ r_resp = NoResponse
    /\ r_dict = NoDict
    /\ r_speech = [t \in SpeechTypes |-> NoSpeech]
    /\ r_card = [t \in CardTypes |-> NoCard]
    /\ r_call = NoCall

\* A response made without an intent, line 244.
ResponseStart ==
    /\ r_resp = IntentResponse(0)
    /\ r_dict = NoDict
    /\ r_speech = [t \in SpeechTypes |-> NoSpeech]
    /\ r_card = [t \in CardTypes |-> NoCard]
    /\ r_call = NoCall

\* The dict as_dict() returned, seen after the response became r.
Aliased(dct, r) == IF dct.made THEN [made |-> TRUE, dict |-> as_dict(r)] ELSE dct

SetSpeech(speech, speech_type, extra_data) ==
    /\ r_resp' = async_set_speech(r_resp, speech, speech_type, extra_data)
    /\ r_dict' = Aliased(r_dict, r_resp')
    /\ r_speech' = [r_speech EXCEPT ![speech_type] =
          [set |-> TRUE, speech |-> speech, extra_data |-> extra_data]]
    /\ r_call' = [kind |-> "speech", type |-> speech_type, before |-> r_resp]
    /\ UNCHANGED r_card

SetCard(title, content, card_type) ==
    /\ r_resp' = async_set_card(r_resp, title, content, card_type)
    /\ r_dict' = Aliased(r_dict, r_resp')
    /\ r_card' = [r_card EXCEPT ![card_type] =
          [set |-> TRUE, title |-> title, content |-> content]]
    /\ r_call' = [kind |-> "card", type |-> card_type, before |-> r_resp]
    /\ UNCHANGED r_speech

AsDict ==
    /\ r_dict' = [made |-> TRUE, dict |-> as_dict(r_resp)]
    /\ UNCHANGED <<r_resp, r_speech, r_card, r_call>>

(***************************************************************************)
(* The methods of one handler, called on their own: async_can_handle and   *)
(* async_validate_slots.                                                   *)
(*   h_id         the handler: its class and slot_schema                   *)
(*   h_platforms  the handler's own platforms attribute                    *)
(*   h_platform   intent_obj.platform                                      *)
(*   h_slots      the slots dict given to async_validate_slots             *)
(*   h_done       the methods called so far                                *)
(*   h_can        what async_can_handle returned                           *)
(*   h_out        what async_validate_slots returned or raised             *)
(***************************************************************************)
VARIABLES h_id, h_platforms, h_platform, h_slots, h_done, h_can, h_out

hvars == <<h_id, h_platforms, h_platform, h_slots, h_done, h_can, h_out>>

IntentPlatforms == {"conversation", "alexa"}

PlatformsAttrs ==
    {PlatformsUnset, PlatformsNone} \cup
    {PlatformsList(l) : l \in SUBSET IntentPlatforms}

\* A slot as a caller can hand it in: absent, a dict with a string or None
\* under "value", or a dict without "value".
SlotValues ==
    {NoSlot, Slot(PyStr(<<"a">>)), Slot(PyNone),
     [has |-> TRUE, hasValue |-> FALSE, value |-> PyNone]}

SlotDicts == [SlotKeys -> SlotValues]

NoOut == [raised |-> NoExc, slots |-> EmptySlots]

HandlerIdle ==
    /\ h_id = "base"
    /\ h_platforms = PlatformsUnset
    /\ h_platform = "None"
    /\ h_slots = EmptySlots
    /\ h_done = {}
    /\ h_can = FALSE
    /\ h_out = NoOut

HandlerStart ==
    /\ h_id \in HandlerIds
    /\ h_platforms \in PlatformsAttrs
    /\ h_platform \in IntentPlatforms
    /\ h_slots \in SlotDicts
    /\ h_done = {}
    /\ h_can = FALSE
    /\ h_out = NoOut

CallCanHandle ==
    /\ "can_handle" \notin h_done
    /\ h_can' = async_can_handle(h_platforms, h_platform)
    /\ h_done' = h_done \cup {"can_handle"}
    /\ UNCHANGED <<h_id, h_platforms, h_platform, h_slots, h_out>>

CallValidateSlots ==
    /\ "validate_slots" \notin h_done
    /\ h_out' = async_validate_slots(h_id, h_slots)
    /\ h_done' = h_done \cup {"validate_slots"}
    /\ UNCHANGED <<h_id, h_platforms, h_platform, h_slots, h_can>>

(***************************************************************************)
(* openpeerpower/helpers/translation.py: async_get_component_resources     *)
(* for one language, called by several callers at once.                    *)
(*   t_config  opp.config.components, the components set up so far         *)
(*   t_cache   opp.data[TRANSLATION_STRING_CACHE][language]: per component *)
(*             "absent" (no key), "empty" ({}) or "file" (the content of   *)
(*             the component's translation file)                           *)
(*   t_calls   the calls: pc is the await the call is suspended at         *)
(*   t_loads   per component, how often load_json read its file            *)
(***************************************************************************)
VARIABLES t_config, t_cache, t_calls, t_loads

tvars == <<t_config, t_cache, t_calls, t_loads>>

TRANSLATION_STRING_CACHE == "translation_string_cache"

\* "single" is a component of one file, for which
\* component_translation_file returns None (line 61-62).
Components == {"hue", "mqtt", "single"}

\* What async_get_config_flows returns.
ConfigFlows == {"hue"}

\* component_translation_file(opp, component, language) is not None.
HasTranslationFile(component) == component # "single"

Calls == 1..MaxCalls

NoCall18 ==
    [pc |-> "idle", components |-> {}, cached |-> {}, todo |-> {},
     component |-> "None", missing_files |-> {}, loaded |-> {},
     resources |-> {}, raised |-> NoExc]

TranslationIdle ==
    /\ t_config = {}
    /\ t_cache = [c \in Components |-> "absent"]
    /\ t_calls = [c \in Calls |-> NoCall18]
    /\ t_loads = [c \in Components |-> 0]

\* set(translation_cache), line 119.
CacheKeys(cache) == {c \in Components : cache[c] # "absent"}

\* build_resources and flatten, lines 140-144: translation_cache[component]
\* is read for every component, a KeyError if one has no entry.
Returns(call, cache) ==
    IF call.components \subseteq CacheKeys(cache)
    THEN [call EXCEPT !.pc = "done", !.component = "None",
                      !.resources = call.components]
    ELSE [call EXCEPT !.pc = "done", !.component = "None",
                      !.raised = Exc("KeyError", "build_resources")]

\* A component is set up: opp.config.components grows.
SetUp(component) ==
    /\ component \notin t_config
    /\ t_config' = t_config \cup {component}
    /\ UNCHANGED <<t_cache, t_calls, t_loads>>

\* Lines 109-116 up to the await of async_get_config_flows.
GetResources(c) ==
    /\ t_calls[c].pc = "idle"
    /\ t_calls' = [t_calls EXCEPT ![c] = [NoCall18 EXCEPT !.pc = "flows"]]
    /\ UNCHANGED <<t_config, t_cache, t_loads>>

\* Lines 116-122: the config flows are there; the missing components are
\* computed and the loop awaits the path of its first component, taken in
\* any order.  Without a missing component the call runs to its return.
GotFlows(c, first) ==
    /\ t_calls[c].pc = "flows"
    /\ LET components == t_config \cup ConfigFlows
           missing == components \ CacheKeys(t_cache)
           call == [t_calls[c] EXCEPT !.components = components,
                                      !.cached = CacheKeys(t_cache)]
       IN  IF missing = {}
           THEN /\ first = "None"
                /\ t_calls' = [t_calls EXCEPT ![c] = Returns(call, t_cache)]
           ELSE /\ first \in missing
                /\ t_calls' = [t_calls EXCEPT ![c] =
                      [call EXCEPT !.pc = "path", !.component = first,
                                   !.todo = missing \ {first}]]
    /\ UNCHANGED <<t_config, t_cache, t_loads>>

\* Lines 122-135: the path of the current component is there.  A component
\* without a translation file gets an empty entry, the file of another is
\* noted; then the loop awaits the next path or, after the last component,
\* the call awaits the job that loads the noted files or runs to its return.
GotPath(c, next) ==
    /\ t_calls[c].pc = "path"
    /\ LET call == t_calls[c]
           component == call.component
           files == IF HasTranslationFile(component)
                    THEN call.missing_files \cup {component}
                    ELSE call.missing_files
           cache == IF HasTranslationFile(component)
                    THEN t_cache
                    ELSE [t_cache EXCEPT ![component] = "empty"]
       IN  /\ t_cache' = cache
           /\ IF call.todo # {}
              THEN /\ next \in call.todo
                   /\ t_calls' = [t_calls EXCEPT ![c] =
                         [call EXCEPT !.component = next,
                                      !.todo = call.todo \ {next},
                                      !.missing_files = files]]
              ELSE /\ next = "None"
                   /\ t_calls' = [t_calls EXCEPT ![c] =
                         IF files # {}
                         THEN [call EXCEPT !.pc = "loading",
                                           !.component = "None",
                                           !.missing_files = files]
                         ELSE Returns(call, cache)]
    /\ UNCHANGED <<t_config, t_loads>>

\* translation_cache.update(loaded_translations), line 138.
CacheUpdate(cache, loaded) ==
    [c \in Components |-> IF c \in loaded THEN "file" ELSE cache[c]]

\* Lines 131-144: the job load_translations_files read every noted file
\* (lines 73-76), the call resumes, updates the cache and returns.
LoadEnds(c) ==
    /\ t_calls[c].pc = "loading"
    /\ t_loads' = [k \in Components |->
          IF k \in t_calls[c].missing_files THEN t_loads[k] + 1 ELSE t_loads[k]]
    /\ t_cache' = CacheUpdate(t_cache, t_calls[c].missing_files)
    /\ t_calls' = [t_calls EXCEPT ![c] =
          Returns([t_calls[c] EXCEPT !.loaded = t_calls[c].missing_files],
                  t_cache')]
    /\ UNCHANGED t_config

\* The caller is done with the result of call c.
Returned18(c) ==
    /\ t_calls[c].pc = "done"
    /\ t_calls' = [t_calls EXCEPT ![c] = NoCall18]
    /\ UNCHANGED <<t_config, t_cache, t_loads>>

(***************************************************************************)
(* openpeerpower/components/automation/mqtt.py: the MQTT trigger of an     *)
(* automation.                                                             *)
(*   m_config  the trigger's config once async_attach_trigger subscribed:  *)
(*             the payload (None when not configured) and the encoding     *)
(*   m_count   how many messages the listener was called with              *)
(*   m_msg     the message of the last call of the listener                *)
(*   m_jobs    the jobs that call handed to opp.async_run_job, in order    *)
(***************************************************************************)
VARIABLES m_config, m_count, m_msg, m_jobs

mvars == <<m_config, m_count, m_msg, m_jobs>>

DEFAULT_ENCODING == "utf-8"

\* Characters of payloads: a digit, the braces of a JSON object, a letter.
PayloadChars == {"1", "{", "}", "x"}

PayloadTexts == UNION {[1..k -> PayloadChars] : k \in 0..MaxPayloadLen}

\* json.loads(payload), lines 50-53, on these payloads: a run of digits is
\* a number, "{}" is the empty object, anything else raises ValueError.
\* bytes are decoded first and parse as the text they encode.
RECURSIVE DigitsValue(_)
DigitsValue(t) ==
    IF t = <<>> THEN 0 ELSE 10 * DigitsValue(SubSeq(t, 1, Len(t) - 1)) + 1

NoJson == [ok |-> FALSE, kind |-> "None", n |-> 0]

json_loads(t) ==
    IF t # <<>> /\ \A i \in 1..Len(t) : t[i] = "1"
    THEN [ok |-> TRUE, kind |-> "int", n |-> DigitsValue(t)]
    ELSE IF t = <<"{", "}">>
    THEN [ok |-> TRUE, kind |-> "dict", n |-> 0]
    ELSE NoJson

\* A message: the payload is a str when the subscription has an encoding
\* and bytes when it has none.
Message(topic, text, bytes, qos) ==
    [topic |-> topic, payload |-> [bytes |-> bytes, text |-> text], qos |-> qos]

NoMessage == Message("None", <<>>, FALSE, 0)

\* payload == mqttmsg.payload, line 42: a str never equals bytes.
PayloadEquals(payload, msg_payload) ==
    ~msg_payload.bytes /\ payload.str = msg_payload.text

\* The dict of lines 43-53 for a message.
TriggerData(msg) ==
    [platform |-> "mqtt", topic |-> msg.topic, payload |-> msg.payload,
     qos |-> msg.qos, has_payload_json |-> json_loads(msg.payload.text).ok,
     payload_json |-> json_loads(msg.payload.text)]

\* The listener with the test of line 42 left out.
mqtt_automation_listener_NoFilter(payload, msg) ==
    <<[action |-> "action", trigger |-> TriggerData(msg)]>>

\* mqtt_automation_listener(mqttmsg), lines 40-55: the jobs handed to
\* opp.async_run_job.
mqtt_automation_listener(payload, msg) ==
    IF payload.none \/ PayloadEquals(payload, msg.payload)
    THEN <<[action |-> "action", trigger |-> TriggerData(msg)]>>
    ELSE <<>>

NoConfig == [attached |-> FALSE, payload |-> PyNone, encoding |-> "None"]

ConfigPayloads == {PyNone, PyStr(<<"1">>), PyStr(<<"{", "}">>), PyStr(<<"x">>)}

\* config[CONF_ENCODING]: the default, or "" for raw bytes.
ConfigEncodings == {DEFAULT_ENCODING, ""}

MessageTopics == {"a/b", "a/c"}

MessageQos == {0, 1}

MqttIdle ==
    /\ m_config = NoConfig
    /\ m_count = 0
    /\ m_msg = NoMessage
    /\ m_jobs = <<>>

\* async_attach_trigger, lines 32-60.
AttachMqtt(payload, encoding) ==
    /\ ~m_config.attached
    /\ m_config' = [attached |-> TRUE, payload |-> payload,
                     encoding |-> IF encoding = "" THEN "None" ELSE encoding]
    /\ UNCHANGED <<m_count, m_msg, m_jobs>>

\* The subscription delivers a message to the listener.
Deliver(topic, text, qos) ==
    /\ m_config.attached
    /\ m_count < MaxMessages
    /\ m_count' = m_count + 1
    /\ m_msg' = Message(topic, text, m_config.encoding = "None", qos)
    /\ m_jobs' = mqtt_automation_listener(m_config.payload, m_msg')
    /\ UNCHANGED m_config

(***************************************************************************)
(* openpeerpower/components/alarm_control_panel/device_trigger.py:         *)
(* async_attach_trigger.                                                   *)
(*   a_attached  the state triggers attached so far, in order              *)
(*   a_last      the last call: its config, what it raised, and the        *)
(*               triggers attached before it                               *)
(***************************************************************************)
VARIABLES a_attached, a_last

avars == <<a_attached, a_last>>

STATE_ALARM_ARMED_AWAY == "armed_away"
STATE_ALARM_ARMED_HOME == "armed_home"
STATE_ALARM_ARMED_NIGHT == "armed_night"
STATE_ALARM_DISARMED == "disarmed"
STATE_ALARM_PENDING == "pending"
STATE_ALARM_TRIGGERED == "triggered"

TRIGGER_TYPES == {"triggered", "disarmed", "armed_home", "armed_away",
                  "armed_night"}

\* TRIGGER_SCHEMA(config), lines 40-45 and 124, for a config whose other
\* keys are valid: the type has to be one of TRIGGER_TYPES.
TRIGGER_SCHEMA(config) ==
    IF config.type \in TRIGGER_TYPES
    THEN NoExc
    ELSE Exc("MultipleInvalid", "TRIGGER_SCHEMA")

Unbound == [bound |-> FALSE, from |-> "None", to |-> "None"]

Pair(from, to) == [bound |-> TRUE, from |-> from, to |-> to]

\* The chain of lines 126-140 with the pair of "triggered" also for
\* "disarmed".
FromTo_DisarmedAsTriggered(type) ==
    IF type \in {"triggered", "disarmed"}
    THEN Pair(STATE_ALARM_PENDING, STATE_ALARM_TRIGGERED)
    ELSE IF type = "armed_home"
    THEN Pair(STATE_ALARM_PENDING, STATE_ALARM_ARMED_HOME)
    ELSE IF type = "armed_away"
    THEN Pair(STATE_ALARM_PENDING, STATE_ALARM_ARMED_AWAY)
    ELSE IF type = "armed_night"
    THEN Pair(STATE_ALARM_PENDING, STATE_ALARM_ARMED_NIGHT)
    ELSE Unbound

\* Lines 126-140: from_state and to_state; the chain has no else, so for
\* another type both names stay unbound.
FromTo(type) ==
    IF type = "triggered"
    THEN Pair(STATE_ALARM_PENDING, STATE_ALARM_TRIGGERED)
    ELSE IF type = "disarmed"
    THEN Pair(STATE_ALARM_TRIGGERED, STATE_ALARM_DISARMED)
    ELSE IF type = "armed_home"
    THEN Pair(STATE_ALARM_PENDING, STATE_ALARM_ARMED_HOME)
    ELSE IF type = "armed_away"
    THEN Pair(STATE_ALARM_PENDING, STATE_ALARM_ARMED_AWAY)
    ELSE IF type = "armed_night"
    THEN Pair(STATE_ALARM_PENDING, STATE_ALARM_ARMED_NIGHT)
    ELSE Unbound

NoTrigger ==
    [platform |-> "None", entity_id |-> "None", from |-> "None",
     to |-> "None", platform_type |-> "None"]

\* Lines 142-151 for the pair ft: the state trigger handed to
\* state.async_attach_trigger.
StateTrigger(config, ft) ==
    IF ~ft.bound
    THEN [raised |-> Exc("UnboundLocalError", "async_attach_trigger"),
          trigger |-> NoTrigger]
    ELSE [raised |-> NoExc,
          trigger |-> [platform |-> "state", entity_id |-> config.entity_id,
                       from |-> ft.from, to |-> ft.to,
                       platform_type |-> "device"]]

\* async_attach_trigger(opp, config, action, automation_info), lines 117-151.
alarm_async_attach_trigger(config) ==
    IF TRIGGER_SCHEMA(config) # NoExc
    THEN [raised |-> TRIGGER_SCHEMA(config), trigger |-> NoTrigger]
    ELSE StateTrigger(config, FromTo(config.type))

AlarmEntities == {"alarm_control_panel.home", "alarm_control_panel.garage"}

\* Values of config[CONF_TYPE]: the trigger types and two states of an
\* alarm panel that are no trigger type.
ConfigTypes == TRIGGER_TYPES \cup {"pending", "armed_custom_bypass"}

NoAttach ==
    [called |-> FALSE, config |-> [entity_id |-> "None", type |-> "None"],
     raised |-> NoExc, before |-> <<>>]

AlarmIdle ==
    /\ a_attached = <<>>
    /\ a_last = NoAttach

AttachAlarm(entity_id, type) ==
    /\ Len(a_attached) < MaxAttach
    /\ LET config == [entity_id |-> entity_id, type |-> type]
           r == alarm_async_attach_trigger(config)
       IN  /\ a_attached' = IF r.raised = NoExc
                             THEN Append(a_attached, r.trigger)
                             ELSE a_attached
           /\ a_last' = [called |-> TRUE, config |-> config,
                          raised |-> r.raised, before |-> a_attached]

(***************************************************************************)
(* components/alarm_control_panel/device_trigger.py: async_get_triggers    *)
(* lists the device triggers of a device from the entity registry and the  *)
(* state store.                                                            *)
(***************************************************************************)
VARIABLES g_states, g_last

gvars == <<g_states, g_last>>

ALARM_DOMAIN == "alarm_control_panel"

SUPPORT_ALARM_ARM_HOME == 1
SUPPORT_ALARM_ARM_AWAY == 2
SUPPORT_ALARM_ARM_NIGHT == 4

\* x & y on non-negative integers.
RECURSIVE BitAnd(_, _)
BitAnd(x, y) ==
    IF x = 0 \/ y = 0 THEN 0
    ELSE (x % 2) * (y % 2) + 2 * BitAnd(x \div 2, y \div 2)

\* The entity registry: the entries in the registry's order, two alarm
\* panels and a sensor of one device and an alarm panel of another.
Registry ==
    << [entity_id |-> "alarm_control_panel.home", domain |-> ALARM_DOMAIN,
        device_id |-> "dev1"],
       [entity_id |-> "sensor.door", domain |-> "sensor",
        device_id |-> "dev1"],
       [entity_id |-> "alarm_control_panel.garage", domain |-> ALARM_DOMAIN,
        device_id |-> "dev1"],
       [entity_id |-> "alarm_control_panel.shed", domain |-> ALARM_DOMAIN,
        device_id |-> "dev2"] >>

RegistryIds == {Registry[i].entity_id : i \in 1..Len(Registry)}

\* The devices asked about: "dev3" has no entity.
DeviceIds == {"dev1", "dev2", "dev3"}

\* entity_registry.async_entries_for_device(registry, device_id).
RECURSIVE async_entries_for_device(_, _)
async_entries_for_device(registry, device_id) ==
    IF registry = <<>> THEN <<>>
    ELSE (IF Head(registry).device_id = device_id
          THEN <<Head(registry)>> ELSE <<>>)
         \o async_entries_for_device(Tail(registry), device_id)

\* What opp.states.get(entity_id) returns: None, or a State whose attributes
\* hold supported_features or do not.
StateNone == [none |-> TRUE, has_features |-> FALSE, supported_features |-> 0]

StateWithout ==
    [none |-> FALSE, has_features |-> FALSE, supported_features |-> 0]

StateWith(f) ==
    [none |-> FALSE, has_features |-> TRUE, supported_features |-> f]

\* The values of supported_features: every combination of the three arm
\* bits, and values with a bit that is none of them.
FeatureValues == 0..7 \cup {8, 15}

EntityStates == {StateNone, StateWithout} \cup {StateWith(f) : f \in FeatureValues}

\* The dict of lines 68-74 and alike.
DeviceTrigger(device_id, entity_id, type) ==
    [platform |-> "device", device_id |-> device_id, domain |-> ALARM_DOMAIN,
     entity_id |-> entity_id, type |-> type]

\* Lines 83-112: the triggers appended for the bits of supported_features.
ArmTriggers(device_id, entity_id, supported_features) ==
    (IF BitAnd(supported_features, SUPPORT_ALARM_ARM_HOME) # 0
     THEN <<DeviceTrigger(device_id, entity_id, "armed_home")>> ELSE <<>>)
    \o (IF BitAnd(supported_features, SUPPORT_ALARM_ARM_AWAY) # 0
        THEN <<DeviceTrigger(device_id, entity_id, "armed_away")>> ELSE <<>>)
    \o (IF BitAnd(supported_features, SUPPORT_ALARM_ARM_NIGHT) # 0
        THEN <<DeviceTrigger(device_id, entity_id, "armed_night")>> ELSE <<>>)

\* Lines 67-112: the triggers of one entity with supported_features read.
EntityTriggers(device_id, entity_id, supported_features) ==
    <<DeviceTrigger(device_id, entity_id, "disarmed"),
      DeviceTrigger(device_id, entity_id, "triggered")>>
    \o ArmTriggers(device_id, entity_id, supported_features)

\* The loop of lines 54-112 over entries, triggers being the list so far.
\* attributes["supported_features"] at line 64 raises KeyError for a state
\* without the attribute, which ends the call.
RECURSIVE TriggersLoop(_, _, _, _)
TriggersLoop(entries, store, device_id, triggers) ==
    IF entries = <<>>
    THEN [raised |-> NoExc, triggers |-> triggers]
    ELSE IF Head(entries).domain # ALARM_DOMAIN
    THEN TriggersLoop(Tail(entries), store, device_id, triggers)
    ELSE IF store[Head(entries).entity_id].none
    THEN TriggersLoop(Tail(entries), store, device_id, triggers)
    ELSE IF ~store[Head(entries).entity_id].has_features
    THEN [raised |-> Exc("KeyError", "async_get_triggers"), triggers |-> <<>>]
    ELSE TriggersLoop(Tail(entries), store, device_id,
             triggers \o EntityTriggers(device_id, Head(entries).entity_id,
                 store[Head(entries).entity_id].supported_features))

\* async_get_triggers(opp, device_id), lines 48-114.
async_get_triggers(registry, store, device_id) ==
    TriggersLoop(async_entries_for_device(registry, device_id), store,
                 device_id, <<>>)

NoListing ==
    [called |-> FALSE, device_id |-> "None", raised |-> NoExc,
     triggers |-> <<>>]

TriggersIdle ==
    /\ g_states = [e \in RegistryIds |-> StateNone]
    /\ g_last = NoListing

\* The state store takes a state of entity e, or drops it; a listing made
\* before is of the store as it was, and is dropped.
SetState(e, st) ==
    /\ g_states[e] # st
    /\ g_states' = [g_states EXCEPT ![e] = st]
    /\ g_last' = NoListing

GetTriggers(device_id) ==
    /\ g_last' = [called |-> TRUE, device_id |-> device_id,
                  raised |-> async_get_triggers(Registry, g_states, device_id).raised,
                  triggers |-> async_get_triggers(Registry, g_states, device_id).triggers]
    /\ UNCHANGED g_states

(***************************************************************************)
(* components/websocket_api/sensor.py: APICount, the sensor of the number  *)
(* of connected websocket clients.  The connections keep their count in    *)
(* opp.data[DATA_CONNECTIONS] and send a signal when one opens or closes;  *)
(* the dispatcher runs the listeners of a signal later, in the order sent. *)
(***************************************************************************)
VARIABLES s_data, s_count, s_added, s_queue, s_sched, s_handled, s_sent,
          s_last

svars == <<s_data, s_count, s_added, s_queue, s_sched, s_handled, s_sent,
           s_last>>

SIGNAL_WEBSOCKET_CONNECTED == "websocket_connected"
SIGNAL_WEBSOCKET_DISCONNECTED == "websocket_disconnected"

\* opp.data without the key DATA_CONNECTIONS, and with it.
NoConnections == [present |-> FALSE, n |-> 0]

Connections(n) == [present |-> TRUE, n |-> n]

\* self.count: None, line 24, or a number.
CountNone == [none |-> TRUE, n |-> 0]

Count(n) == [none |-> FALSE, n |-> n]

\* opp.data.get(DATA_CONNECTIONS, 0), line 51.
DataGet(opp_data) == IF opp_data.present THEN opp_data.n ELSE 0

\* _update_count with self.count left None when no count is recorded.
update_count_NoDefault(opp_data, sched) ==
    [count |-> IF opp_data.present THEN Count(opp_data.n) ELSE CountNone,
     sched |-> sched + 1]

\* _update_count, lines 49-52: the new self.count and the number of state
\* updates scheduled so far.
update_count(opp_data, sched) ==
    [count |-> Count(DataGet(opp_data)), sched |-> sched + 1]

SensorIdle ==
    /\ s_data = NoConnections
    /\ s_count = CountNone
    /\ s_added = FALSE
    /\ s_queue = <<>>
    /\ s_sched = 0
    /\ s_handled = 0
    /\ s_sent = 0
    /\ s_last = "none"

\* The listeners that the signal reaches: _update_count once the entity
\* has connected it, lines 28-31.
Sent(signal) == IF s_added THEN Append(s_queue, signal) ELSE s_queue

\* A websocket connection opens: the count goes up and the connected
\* signal is sent.
Connect ==
    /\ s_sent < MaxSignals
    /\ s_data' = Connections(DataGet(s_data) + 1)
    /\ s_queue' = Sent(SIGNAL_WEBSOCKET_CONNECTED)
    /\ s_sent' = s_sent + 1
    /\ s_last' = "connect"
    /\ UNCHANGED <<s_count, s_added, s_sched, s_handled>>

\* A websocket connection closes: the count goes down and the disconnected
\* signal is sent.
Disconnect ==
    /\ s_sent < MaxSignals
    /\ s_data.present
    /\ s_data.n > 0
    /\ s_data' = Connections(s_data.n - 1)
    /\ s_queue' = Sent(SIGNAL_WEBSOCKET_DISCONNECTED)
    /\ s_sent' = s_sent + 1
    /\ s_last' = "disconnect"
    /\ UNCHANGED <<s_count, s_added, s_sched, s_handled>>

\* async_added_to_opp, lines 26-32.
AddedToOpp ==
    /\ ~s_added
    /\ s_added' = TRUE
    /\ s_count' = update_count(s_data, s_sched).count
    /\ s_sched' = update_count(s_data, s_sched).sched
    /\ s_last' = "added"
    /\ UNCHANGED <<s_data, s_queue, s_handled, s_sent>>

\* The dispatcher runs _update_count for the oldest signal not yet handled.
HandleSignal ==
    /\ s_queue # <<>>
    /\ s_queue' = Tail(s_queue)
    /\ s_count' = update_count(s_data, s_sched).count
    /\ s_sched' = update_count(s_data, s_sched).sched
    /\ s_handled' = s_handled + 1
    /\ s_last' = "signal"
    /\ UNCHANGED <<s_data, s_added, s_sent>>

vars == <<dvars, fvars, rvars, hvars, tvars, mvars, avars, gvars, svars>>

notDispatch == <<fvars, rvars, hvars, tvars, mvars, avars, gvars, svars>>

notFuzzy == <<dvars, rvars, hvars, tvars, mvars, avars, gvars, svars>>

notResponse == <<dvars, fvars, hvars, tvars, mvars, avars, gvars, svars>>

notHandler == <<dvars, fvars, rvars, tvars, mvars, avars, gvars, svars>>

notTranslation == <<dvars, fvars, rvars, hvars, mvars, avars, gvars, svars>>

notMqtt == <<dvars, fvars, rvars, hvars, tvars, avars, gvars, svars>>

notAlarm == <<dvars, fvars, rvars, hvars, tvars, mvars, gvars, svars>>

notTriggers == <<dvars, fvars, rvars, hvars, tvars, mvars, avars, svars>>

notSensor == <<dvars, fvars, rvars, hvars, tvars, mvars, avars, gvars>>

\* The matcher's variables at rest, for the specification of the dispatch.
FuzzyIdle ==
    /\ f_pc = "idle"
    /\ f_name = <<>>
    /\ f_items = <<>>
    /\ f_result = FuzzyNone

\* The state of the parts that a specification leaves at rest.
AtRest ==
    TranslationIdle /\ MqttIdle /\ AlarmIdle /\ TriggersIdle /\ SensorIdle

Init == DInit /\ FuzzyIdle /\ ResponseIdle /\ HandlerIdle /\ AtRest

Next ==
    \/ \E h \in HandlerIds : Register(h) /\ UNCHANGED notDispatch
    \/ \E d \in Dispatches : Forget(d) /\ UNCHANGED notDispatch
    \/ \E d \in Dispatches, t \in IntentTypes :
          \E b \in IF HasBody(Lookup(data, t)) THEN {"ok"} \cup CustomRaises
                    ELSE {"ok"} :
            \E p \in Platforms, s \in SlotsArgs, c \in ContextArgs :
                Dispatch(d, p, t, s, c, b) /\ UNCHANGED notDispatch
    \/ \E d \in Dispatches, r \in {"ok"} \cup ServiceRaises :
            ServiceCallEnds(d, r) /\ UNCHANGED notDispatch

Spec == Init /\ [][Next]_vars

FuzzyInit == DInit /\ ResponseIdle /\ HandlerIdle /\ AtRest /\ FuzzyStart

FuzzyNext == FuzzyCall /\ UNCHANGED notFuzzy

SpecFuzzy == FuzzyInit /\ [][FuzzyNext]_vars

ResponseInit ==
    /\ DInit
    /\ FuzzyIdle
    /\ HandlerIdle
    /\ AtRest
    /\ ResponseStart

ResponseNext ==
    \/ \E sp \in SpeechTexts, t \in SpeechTypes, x \in ExtraData :
          SetSpeech(sp, t, x) /\ UNCHANGED notResponse
    \/ \E ti \in CardTitles, co \in CardContents, t \in CardTypes :
          SetCard(ti, co, t) /\ UNCHANGED notResponse
    \/ AsDict /\ UNCHANGED notResponse

SpecResponse == ResponseInit /\ [][ResponseNext]_vars

ConcurrentInit ==
    ConcurrentStart /\ FuzzyIdle /\ ResponseIdle /\ HandlerIdle /\ AtRest

ConcurrentNext ==
    \/ \E h \in ConcurrentHandlers : Register(h) /\ UNCHANGED notDispatch
    \/ \E d \in Concurrent, s \in ConcurrentSlots, c \in ContextArgs :
          DispatchConcurrent(d, s, c) /\ UNCHANGED notDispatch
    \/ \E d \in Concurrent :
          ServiceCallEnds(d, "ok") /\ UNCHANGED notDispatch

SpecConcurrent == ConcurrentInit /\ [][ConcurrentNext]_vars

HandlerInit == DInit /\ FuzzyIdle /\ ResponseIdle /\ AtRest /\ HandlerStart

HandlerNext ==
    \/ CallCanHandle /\ UNCHANGED notHandler
    \/ CallValidateSlots /\ UNCHANGED notHandler

SpecHandler == HandlerInit /\ [][HandlerNext]_vars

\* The parts of helpers/intent.py at rest.
IntentIdle == DInit /\ FuzzyIdle /\ ResponseIdle /\ HandlerIdle

TranslationInit == IntentIdle /\ AtRest

TranslationNext ==
    \/ \E k \in Components : SetUp(k) /\ UNCHANGED notTranslation
    \/ \E c \in Calls : GetResources(c) /\ UNCHANGED notTranslation
    \/ \E c \in Calls, k \in Components \cup {"None"} :
          GotFlows(c, k) /\ UNCHANGED notTranslation
    \/ \E c \in Calls, k \in Components \cup {"None"} :
          GotPath(c, k) /\ UNCHANGED notTranslation
    \/ \E c \in Calls : LoadEnds(c) /\ UNCHANGED notTranslation
    \/ \E c \in Calls : Returned18(c) /\ UNCHANGED notTranslation

SpecTranslation == TranslationInit /\ [][TranslationNext]_vars

MqttInit == IntentIdle /\ AtRest

MqttNext ==
    \/ \E p \in ConfigPayloads, e \in ConfigEncodings :
          AttachMqtt(p, e) /\ UNCHANGED notMqtt
    \/ \E t \in MessageTopics, p \in PayloadTexts, q \in MessageQos :
          Deliver(t, p, q) /\ UNCHANGED notMqtt

SpecMqtt == MqttInit /\ [][MqttNext]_vars

AlarmInit == IntentIdle /\ AtRest

AlarmNext ==
    \E e \in AlarmEntities, t \in ConfigTypes :
        AttachAlarm(e, t) /\ UNCHANGED notAlarm

SpecAlarm == AlarmInit /\ [][AlarmNext]_vars

TriggersInit == IntentIdle /\ AtRest

TriggersNext ==
    \/ \E e \in RegistryIds, st \in EntityStates :
          SetState(e, st) /\ UNCHANGED notTriggers
    \/ \E d \in DeviceIds : GetTriggers(d) /\ UNCHANGED notTriggers

SpecTriggers == TriggersInit /\ [][TriggersNext]_vars

SensorInit == IntentIdle /\ AtRest

SensorNext ==
    \/ Connect /\ UNCHANGED notSensor
    \/ Disconnect /\ UNCHANGED notSensor
    \/ AddedToOpp /\ UNCHANGED notSensor
    \/ HandleSignal /\ UNCHANGED notSensor

SpecSensor == SensorInit /\ [][SensorNext]_vars

(***************************************************************************)
(* The ranking the matcher is specified to compute, stated on the query's  *)
(* characters themselves: a candidate matches when its key contains the    *)
(* query's characters, compared case-insensitively, as a subsequence.      *)
(***************************************************************************)
Embeddings(q, key) ==
    {f \in [1..Len(q) -> 1..Len(key)] :
        /\ \A i \in 1..Len(q) : Lower(key[f[i]]) = Lower(q[i])
        /\ \A i \in 1..(Len(q) - 1) : f[i] < f[i + 1]}

ContainsSubsequence(q, key) == Embeddings(q, key) # {}

\* The first subsequence match: the leftmost start, and from that start the
\* nearest end.  An empty query matches the empty span at offset 0.
FirstSpan(q, key) ==
    IF q = <<>> THEN [start |-> 0, len |-> 0]
    ELSE LET E == Embeddings(q, key)
             s == Min({f[1] : f \in E})
             e == Min({f[Len(q)] : f \in {g \in E : g[1] = s}})
         IN  [start |-> s - 1, len |-> e - s + 1]

RankedCandidates(q, items) ==
    {[len |-> FirstSpan(q, items[i].name).len,
      start |-> FirstSpan(q, items[i].name).start,
      idx |-> i - 1] :
        i \in {j \in 1..Len(items) : ContainsSubsequence(q, items[j].name)}}

\* C10: _fuzzymatch returns the candidate with the lexicographically smallest
\* (span length, start offset, index) among the candidates whose key contains
\* the query as a case-insensitive subsequence, and none exactly when no
\* candidate's key contains it.
C10_FuzzyRanking ==
    f_pc = "done" =>
        LET R == RankedCandidates(f_name, f_items)
        IN  /\ f_result.kind = "return"
            /\ f_result.found <=> R # {}
            /\ f_result.found =>
                  /\ \E m \in R : /\ m.idx = f_result.idx
                                   /\ \A o \in R : o = m \/ TupleLess(m, o)
                  /\ f_result.item = f_items[f_result.idx + 1]

\* The query holds no character that Python's re syntax reads as an operator.
PlainQuery(q) == \A i \in 1..Len(q) : q[i] \notin {".", "*"}

\* The ranking of C10 restricted to queries of letters only.
FuzzyRankingPlain == PlainQuery(f_name) => C10_FuzzyRanking

\* C11: for a query equal to one candidate's key verbatim, _fuzzymatch
\* returns that candidate, or an earlier-indexed candidate whose match has
\* the same span length and the same start offset.
C11_VerbatimKeyFound ==
    f_pc = "done" =>
        \A i \in 1..Len(f_items) :
            f_items[i].name = f_name =>
                /\ f_result.kind = "return"
                /\ f_result.found
                /\ \/ f_result.idx = i - 1
                   \/ /\ f_result.idx < i - 1
                      /\ RegexSearch(f_name, f_result.item.name)
                            = RegexSearch(f_name, f_items[i].name)

\* The statement of C11 for queries that re.compile accepts.
VerbatimKeyFoundCompiled == ~CompileFails(f_name) => C11_VerbatimKeyFound

\* A verbatim query was answered with a candidate other than the one whose
\* key it is.
VerbatimEarlierReached ==
    /\ f_pc = "done"
    /\ f_result.found
    /\ \E i \in 1..Len(f_items) :
          f_items[i].name = f_name /\ f_result.idx < i - 1

\* C12: _fuzzymatch is total: for every query, also the empty one and one
\* with pattern metacharacters, and every candidate sequence it returns a
\* candidate or none and never raises; for an empty candidate sequence it
\* returns none.
C12_MatcherTotal ==
    f_pc = "done" =>
        /\ f_result.kind = "return"
        /\ f_result.found =>
              \E i \in 1..Len(f_items) :
                  f_result.idx = i - 1 /\ f_result.item = f_items[i]
        /\ f_items = <<>> => ~f_result.found

\* The statement of C12 for queries that re.compile accepts.
MatcherTotalCompiled == ~CompileFails(f_name) => C12_MatcherTotal

\* C13: after any sequence of async_set_speech and async_set_card calls the
\* speech dict holds, per speech type, the value of the last call made for
\* that type and nothing for a type never set, and the card dict likewise
\* (a dict has one value per key); a call for one type leaves the entries
\* of the other types and the other dict as they were; as_dict() has
\* exactly the keys speech and card, with those dicts.
C13_ResponseMaps ==
    /\ r_resp.speech = r_speech
    /\ r_resp.card = r_card
    /\ r_call.kind = "speech" =>
          /\ \A t \in SpeechTypes \ {r_call.type} :
                r_resp.speech[t] = r_call.before.speech[t]
          /\ r_resp.card = r_call.before.card
    /\ r_call.kind = "card" =>
          /\ \A t \in CardTypes \ {r_call.type} :
                r_resp.card[t] = r_call.before.card[t]
          /\ r_resp.speech = r_call.before.speech
    /\ r_dict.made =>
          /\ DOMAIN r_dict.dict = {"speech", "card"}
          /\ r_dict.dict.speech = r_resp.speech
          /\ r_dict.dict.card = r_resp.card

\* The plain speech was set a second time, to another text, while the ssml
\* speech and a card were set, and as_dict() was called.
C13_Witness ==
    /\ r_call.kind = "speech"
    /\ r_call.type = SPEECH_TYPE_PLAIN
    /\ r_call.before.speech[SPEECH_TYPE_PLAIN].set
    /\ r_call.before.speech[SPEECH_TYPE_PLAIN].speech
          # r_resp.speech[SPEECH_TYPE_PLAIN].speech
    /\ r_resp.speech[SPEECH_TYPE_SSML].set
    /\ r_resp.card["simple"].set
    /\ r_dict.made

\* C14: async_can_handle(intent) is true if and only if the handler declares
\* no platform restriction or the intent's platform is in the handler's
\* allow-list; a handler that does not set platforms at all declares no
\* restriction and can handle an intent from any platform.
C14_CanHandle ==
    "can_handle" \in h_done =>
        (h_can <=> \/ ~h_platforms.set
                   \/ h_platforms.none
                   \/ h_platform \in h_platforms.list)

\* The statement of C14 for the handlers that assign platforms themselves.
CanHandleWhenSet == h_platforms.set => C14_CanHandle

\* A handler with an allow-list was asked about a platform on the list, and
\* one with platforms None about any platform.
CanHandleSetReached ==
    /\ "can_handle" \in h_done
    /\ h_platforms.set
    /\ h_can

\* C17: async_validate_slots never removes or rejects a slot whose key the
\* handler's schema does not declare: without a schema it returns the slots
\* as given; with a schema every undeclared slot of the input is in the
\* result as it was, the call raises only when a declared slot is missing
\* or invalid, and a missing declared slot is rejected.
C17_UndeclaredSlotsKept ==
    "validate_slots" \in h_done =>
        LET schema == Handlers[h_id].slot_schema
        IN  /\ ~Handlers[h_id].declares =>
                  h_out.raised = NoExc /\ h_out.slots = h_slots
            /\ (Handlers[h_id].declares /\ h_out.raised = NoExc) =>
                  \A k \in SlotKeys \ schema : h_out.slots[k] = h_slots[k]
            /\ h_out.raised # NoExc =>
                  /\ Handlers[h_id].declares
                  /\ \E k \in schema :
                        \/ ~h_slots[k].has
                        \/ h_slots[k].hasValue /\ h_slots[k].value.none
            /\ (Handlers[h_id].declares /\ \E k \in schema : ~h_slots[k].has)
                  => h_out.raised # NoExc

\* A handler with a schema accepted slots that hold an undeclared slot.
C17_Witness ==
    /\ "validate_slots" \in h_done
    /\ Handlers[h_id].declares
    /\ h_out.raised = NoExc
    /\ \E k \in SlotKeys \ Handlers[h_id].slot_schema : h_slots[k].has

(***************************************************************************)
(* Properties of the dispatch.                                             *)
(***************************************************************************)
CallsOf(d) == {i \in 1..Len(calls) : calls[i].d = d}

IsService(d) ==
    /\ disp[d].handler # NoHandler
    /\ Handlers[disp[d].handler].cls = "ServiceIntentHandler"

Has(tr, ev) == \E i \in 1..Len(tr) : tr[i] = ev

Pos(tr, ev) == Min({i \in 1..Len(tr) : tr[i] = ev})

\* The slots of the Intent of dispatch d.
DSlots(d) == SlotsOrEmpty(disp[d].slots)

RaisedType(d, t) ==
    disp[d].outcome.kind = "raise" /\ disp[d].outcome.exc.type = t

\* C1: a dispatch of an intent type that had no registered handler when it
\* was made fails with UnknownIntent; no handler was invoked, no service call
\* was issued and no response was created.
C1_UnknownIntent ==
    \A d \in Dispatches :
        (disp[d].pc # "idle" /\ disp[d].expected = NoHandler) =>
            /\ disp[d].pc = "done"
            /\ RaisedType(d, "UnknownIntent")
            /\ disp[d].outcome.exc.site = "async_handle"
            /\ disp[d].trace = <<>>
            /\ CallsOf(d) = {}
            /\ ~disp[d].response.created

C1_Witness ==
    \E d \in Dispatches :
        /\ disp[d].pc = "done"
        /\ disp[d].expected = NoHandler
        /\ RaisedType(d, "UnknownIntent")
        /\ \E t \in TypeKeys : registered[t] # NoHandler

\* C2 as stated: every exception outside the taxonomy that leaves a handler
\* reaches the caller as IntentUnexpectedError with that exception as cause.
C2_AnyOtherIsUnexpected ==
    \A d \in Dispatches :
        (disp[d].pc = "done" /\ disp[d].thrown # NoExc
            /\ disp[d].thrown.type \notin Taxonomy) =>
            /\ RaisedType(d, "IntentUnexpectedError")
            /\ disp[d].outcome.cause = disp[d].thrown

\* C2 amended: an exception that leaves a handler, derives from Exception and
\* is neither in the taxonomy nor a vol.Invalid reaches the caller as
\* IntentUnexpectedError with that exception as cause; a vol.Invalid reaches
\* the caller as InvalidSlotInfo with that exception as cause.
C2_OtherExceptionIsUnexpected ==
    \A d \in Dispatches :
        (disp[d].pc = "done" /\ disp[d].thrown # NoExc
            /\ disp[d].thrown.type \notin Taxonomy
            /\ disp[d].thrown.type # "KeyboardInterrupt") =>
            /\ disp[d].outcome.cause = disp[d].thrown
            /\ disp[d].outcome.exc.site = "async_handle"
            /\ IF disp[d].thrown.type \in {"Invalid", "MultipleInvalid"}
               THEN RaisedType(d, "InvalidSlotInfo")
               ELSE RaisedType(d, "IntentUnexpectedError")

C2_Witness ==
    \E d \in Dispatches :
        /\ disp[d].pc = "done"
        /\ disp[d].thrown = Exc("NotImplementedError", "handler")
        /\ RaisedType(d, "IntentUnexpectedError")
        /\ disp[d].outcome.cause = disp[d].thrown

\* C3: an IntentHandleError that leaves a handler reaches the caller as the
\* same exception object, not as InvalidSlotInfo or IntentUnexpectedError.
C3_HandleErrorVerbatim ==
    \A d \in Dispatches :
        (disp[d].pc = "done" /\ disp[d].thrown.type = "IntentHandleError") =>
            /\ disp[d].outcome.kind = "raise"
            /\ disp[d].outcome.exc = disp[d].thrown
            /\ disp[d].outcome.cause = NoExc

C3_Witness ==
    \E d \in Dispatches :
        /\ disp[d].pc = "done"
        /\ disp[d].thrown = Exc("IntentHandleError", "handler")
        /\ disp[d].outcome.exc = disp[d].thrown

\* The name slot is missing, or its value is not a string.
NameMissing(d) == ~DSlots(d)["name"].has

NameNotString(d) ==
    /\ DSlots(d)["name"].has
    /\ DSlots(d)["name"].hasValue
    /\ DSlots(d)["name"].value.none

ExpectedSpeech(h, name) ==
    IF h = "on" THEN <<"Turned ">> \o name \o <<" on">>
    ELSE <<"Switched on ">> \o name

\* C6: a dispatch to a ServiceIntentHandler that returned issued exactly one
\* service call, with the handler's domain and service, the id of the entity
\* the name matched and the context of the intent; the plain speech of the
\* response is the template with the matched entity's name, and the
\* response was made after the service call ended.
C6_ServiceCallAndSpeech ==
    \A d \in Dispatches :
        (disp[d].pc = "done" /\ disp[d].outcome.kind = "return" /\ IsService(d)) =>
            LET h == disp[d].handler
                m == fuzzymatch(DSlots(d)["name"].value.str, states)
            IN  /\ m.found
                /\ Cardinality(CallsOf(d)) = 1
                /\ \A i \in CallsOf(d) :
                      calls[i] = [d |-> d, domain |-> Handlers[h].domain,
                                  service |-> Handlers[h].service,
                                  entity_id |-> m.item.entity_id,
                                  context |-> disp[d].context]
                /\ disp[d].ctx_arg # NoContext =>
                      disp[d].context = disp[d].ctx_arg
                /\ disp[d].ctx_arg = NoContext => disp[d].context.fresh
                /\ disp[d].response.created
                /\ disp[d].response.intent = d
                /\ disp[d].response.speech[SPEECH_TYPE_PLAIN] =
                      [set |-> TRUE,
                       speech |-> ExpectedSpeech(h, m.item.name),
                       extra_data |-> "None"]
                /\ ~disp[d].response.speech[SPEECH_TYPE_SSML].set
                /\ Pos(disp[d].trace, "call") < Pos(disp[d].trace, "call_done")
                /\ Pos(disp[d].trace, "call_done") < Pos(disp[d].trace, "response")

C6_Witness ==
    \E d \in Dispatches :
        /\ disp[d].pc = "done"
        /\ disp[d].outcome.kind = "return"
        /\ disp[d].handler = "on"
        /\ \E i \in CallsOf(d) : calls[i].entity_id = "light.ab"
                                   /\ calls[i].service = "turn_on"
        /\ disp[d].response.speech[SPEECH_TYPE_PLAIN].speech =
              <<"Turned ", "a", "b", " on">>

\* No entity of the state store has a display name that contains the name.
MatchesNoEntity(name) ==
    \A i \in 1..Len(states) : ~ContainsSubsequence(name, states[i].name)

NameIsString(d) ==
    /\ DSlots(d)["name"].has
    /\ DSlots(d)["name"].hasValue
    /\ ~DSlots(d)["name"].value.none

\* C7: a dispatch to a ServiceIntentHandler with a name that matches no
\* entity of the state store fails with IntentHandleError, and no service
\* call is issued.
C7_NoMatchIsHandleError ==
    \A d \in Dispatches :
        (disp[d].pc # "idle" /\ IsService(d) /\ NameIsString(d)
            /\ MatchesNoEntity(DSlots(d)["name"].value.str)) =>
            /\ disp[d].pc = "done"
            /\ RaisedType(d, "IntentHandleError")
            /\ CallsOf(d) = {}

\* C7 for the names that hold letters only.
NoMatchIsHandleErrorPlain ==
    \A d \in Dispatches :
        (disp[d].pc # "idle" /\ IsService(d) /\ NameIsString(d)
            /\ PlainQuery(DSlots(d)["name"].value.str)
            /\ MatchesNoEntity(DSlots(d)["name"].value.str)) =>
            /\ disp[d].pc = "done"
            /\ RaisedType(d, "IntentHandleError")
            /\ CallsOf(d) = {}

NoMatchPlainReached ==
    \E d \in Dispatches :
        /\ IsService(d) /\ NameIsString(d)
        /\ PlainQuery(DSlots(d)["name"].value.str)
        /\ MatchesNoEntity(DSlots(d)["name"].value.str)
        /\ RaisedType(d, "IntentHandleError")

\* C8: every intent type maps to the handler of the last registration made
\* for it; a registration for a type that has a handler raises nothing; and
\* a dispatch is handled by the handler registered last before it, whose
\* domain and service its service call carries.
C8_LastRegistrationWins ==
    /\ \A t \in TypeKeys : Lookup(data, t) = registered[t]
    /\ last_reg.replaced # NoHandler => last_reg.raised = NoExc
    /\ \A d \in Dispatches :
          disp[d].pc # "idle" =>
              /\ disp[d].handler = disp[d].expected
              /\ \A i \in CallsOf(d) :
                    /\ calls[i].domain = Handlers[disp[d].expected].domain
                    /\ calls[i].service = Handlers[disp[d].expected].service

C8_Witness ==
    /\ last_reg.replaced = "on"
    /\ last_reg.raised = NoExc
    /\ Lookup(data, INTENT_TURN_ON) = "on2"
    /\ \E d \in Dispatches :
          /\ disp[d].pc = "done"
          /\ disp[d].handler = "on2"
          /\ \E i \in CallsOf(d) : calls[i].domain = "switch"

\* C9: async_register of a handler whose intent_type is None raises
\* AssertionError, and after a call that raised every intent type is
\* looked up to the handler it had before the call.
C9_RegisterWithoutTypeFails ==
    /\ \A h \in HandlerIds :
          Handlers[h].intent_type = "None" =>
              /\ async_register(data, h).raised.type = "AssertionError"
              /\ \A t \in TypeKeys :
                    Lookup(async_register(data, h).data, t) = Lookup(data, t)
    /\ last_reg.raised # NoExc =>
          /\ last_reg.raised.type = "AssertionError"
          /\ \A t \in TypeKeys : Lookup(data, t) = Lookup(last_reg.before, t)

C9_Witness ==
    /\ last_reg.raised.type = "AssertionError"
    /\ \E t \in TypeKeys : Lookup(data, t) # NoHandler


(***************************************************************************)
(* Properties of dispatches in flight at once.                             *)
(***************************************************************************)
\* C15: when dispatches are interleaved at the await of the service call,
\* each gets the outcome it would get alone: it is run and completed by the
\* handler that was registered when it was made, also when a registration
\* overwrote that handler while it was suspended; its one service call
\* carries its own context and the id of the entity its own name matched;
\* its response is its own and its speech names its own matched entity.
C15_InterleavedAsAlone ==
    \A d \in DOMAIN disp :
        (disp[d].pc \in {"awaiting", "done"} /\ IsService(d)) =>
            LET h == disp[d].expected
                m == fuzzymatch(DSlots(d)["name"].value.str, states)
            IN  /\ disp[d].handler = h
                /\ m.found
                /\ disp[d].state = m.item
                /\ Cardinality(CallsOf(d)) = 1
                /\ \A i \in CallsOf(d) :
                      calls[i] = [d |-> d, domain |-> Handlers[h].domain,
                                  service |-> Handlers[h].service,
                                  entity_id |-> m.item.entity_id,
                                  context |-> disp[d].context]
                /\ disp[d].pc = "done" =>
                      /\ disp[d].outcome = Returned
                      /\ disp[d].response.intent = d
                      /\ disp[d].response.speech[SPEECH_TYPE_PLAIN].speech =
                            ExpectedSpeech(h, m.item.name)

\* Dispatch 1 is suspended at its service call, made for "a" with the
\* handler "on"; meanwhile "on2" was registered over "on", and dispatch 2
\* was made for "ba" and ran to its end with "on2".
C15_Witness ==
    /\ DOMAIN disp = Concurrent
    /\ disp[1].pc = "awaiting"
    /\ disp[1].handler = "on"
    /\ disp[1].state.entity_id = "light.ab"
    /\ registered[INTENT_TURN_ON] = "on2"
    /\ disp[2].pc = "done"
    /\ disp[2].handler = "on2"
    /\ disp[2].response.speech[SPEECH_TYPE_PLAIN].speech =
          <<"Switched on ", "B", "a">>
    /\ calls[1].d = 1

\* C16: a dispatch made without a context gets a fresh context that no other
\* dispatch has; a dispatch made with a context hands exactly that context
\* to the handler in the Intent, and the service call of a
\* ServiceIntentHandler carries the context of the Intent.
C16_ContextOfDispatch ==
    \A d \in DOMAIN disp :
        (disp[d].pc # "idle" /\ disp[d].handler # NoHandler) =>
            /\ disp[d].ctx_arg = NoContext =>
                  /\ disp[d].context.fresh
                  /\ \A e \in DOMAIN disp \ {d} :
                        disp[e].pc # "idle" => disp[e].context # disp[d].context
            /\ disp[d].ctx_arg # NoContext => disp[d].context = disp[d].ctx_arg
            /\ \A i \in CallsOf(d) :
                  calls[i].context = IF disp[d].ctx_arg # NoContext
                                     THEN disp[d].ctx_arg
                                     ELSE disp[d].context

\* Two dispatches made without a context are in flight, and a third party's
\* context was never handed in.
C16_Witness ==
    /\ DOMAIN disp = Concurrent
    /\ disp[1].pc = "awaiting" /\ disp[1].ctx_arg = NoContext
    /\ disp[2].pc = "awaiting" /\ disp[2].ctx_arg = NoContext
    /\ Len(calls) = 2


(***************************************************************************)
(* Properties of the translation cache.                                    *)
(***************************************************************************)
\* What a completed call leaves: the cache holds an entry for every
\* component of the call's component set, an empty one for a component
\* without a translation file, and the call loaded no component that was
\* cached when it computed the missing components.
CacheCompleteAfterCall ==
    \A c \in Calls :
        t_calls[c].pc = "done" =>
            /\ t_calls[c].raised = NoExc
            /\ t_calls[c].resources = t_calls[c].components
            /\ \A k \in t_calls[c].components :
                  /\ t_cache[k] # "absent"
                  /\ ~HasTranslationFile(k) => t_cache[k] = "empty"
            /\ t_calls[c].loaded \cap t_calls[c].cached = {}

\* C18: across any interleaving of concurrent calls of
\* async_get_component_resources for one language, the translation file of
\* each component is loaded at most once; once a call has completed the
\* cache holds an entry for every component of that call's component set,
\* an empty one for a component without a translation file; a later call
\* loads only components not yet cached.
C18_LoadedOnceAndCached ==
    /\ \A k \in Components : t_loads[k] <= 1
    /\ CacheCompleteAfterCall

\* Two calls completed, the second having loaded a file that the first
\* had left uncached.
CacheCompleteReached ==
    /\ t_calls[1].pc = "done" /\ t_calls[1].loaded = {"hue"}
    /\ t_calls[2].pc = "done" /\ t_calls[2].loaded = {"mqtt"}
    /\ "hue" \in t_calls[2].cached


(***************************************************************************)
(* Properties of the MQTT trigger.                                         *)
(***************************************************************************)
\* The texts over PayloadChars that are JSON documents: the numbers written
\* with the digit 1, and the empty object.
IsJsonText(t) ==
    \/ t = <<"{", "}">>
    \/ \E k \in 1..(MaxPayloadLen + 1) : t = [i \in 1..k |-> "1"]

\* C19: for a message delivered to the listener the action is scheduled
\* exactly once if no payload is configured or the configured payload equals
\* the message's payload, and not at all otherwise; the trigger data carries
\* the message's topic, payload and qos, and holds payload_json if and only
\* if the payload parses as JSON.
C19_MqttListener ==
    m_count > 0 =>
        /\ Len(m_jobs) =
              IF \/ m_config.payload.none
                 \/ /\ ~m_msg.payload.bytes
                    /\ m_config.payload.str = m_msg.payload.text
              THEN 1 ELSE 0
        /\ \A i \in 1..Len(m_jobs) :
              /\ m_jobs[i].trigger.platform = "mqtt"
              /\ m_jobs[i].trigger.topic = m_msg.topic
              /\ m_jobs[i].trigger.payload = m_msg.payload
              /\ m_jobs[i].trigger.qos = m_msg.qos
              /\ m_jobs[i].trigger.has_payload_json
                    <=> IsJsonText(m_msg.payload.text)
              /\ m_jobs[i].trigger.has_payload_json
                    => m_jobs[i].trigger.payload_json.ok

\* With the payload "1" configured, a second message with that payload was
\* delivered and scheduled the action with payload_json.
C19_Witness ==
    /\ m_config.payload = PyStr(<<"1">>)
    /\ m_count = 2
    /\ m_msg.payload.text = <<"1">>
    /\ Len(m_jobs) = 1
    /\ m_jobs[1].trigger.has_payload_json
    /\ m_jobs[1].trigger.payload_json.n = 1


(***************************************************************************)
(* Properties of the alarm panel's device trigger.                         *)
(***************************************************************************)
\* The pair of states that each trigger type stands for.
PairOfType ==
    [triggered   |-> <<"pending", "triggered">>,
     disarmed    |-> <<"triggered", "disarmed">>,
     armed_home  |-> <<"pending", "armed_home">>,
     armed_away  |-> <<"pending", "armed_away">>,
     armed_night |-> <<"pending", "armed_night">>]

\* C20: the device trigger attaches a state trigger whose (from, to) pair is
\* fixed by the trigger type: triggered is pending to triggered, disarmed is
\* triggered to disarmed, armed_home, armed_away and armed_night are pending
\* to that armed state; every type of TRIGGER_TYPES has a pair; a config
\* whose type is outside TRIGGER_TYPES is rejected by the schema and no
\* trigger is attached.
C20_AlarmTriggerPairs ==
    /\ DOMAIN PairOfType = TRIGGER_TYPES
    /\ \A t \in TRIGGER_TYPES : FromTo(t).bound
    /\ a_last.called =>
          IF a_last.config.type \in TRIGGER_TYPES
          THEN /\ a_last.raised = NoExc
               /\ a_attached = Append(a_last.before,
                     [platform |-> "state",
                      entity_id |-> a_last.config.entity_id,
                      from |-> PairOfType[a_last.config.type][1],
                      to |-> PairOfType[a_last.config.type][2],
                      platform_type |-> "device"])
          ELSE /\ a_last.raised = Exc("MultipleInvalid", "TRIGGER_SCHEMA")
               /\ a_attached = a_last.before

\* A disarmed trigger was attached, and then a config of a type outside
\* TRIGGER_TYPES was handed in.
C20_Witness ==
    /\ a_last.called
    /\ a_last.config.type = "pending"
    /\ Len(a_attached) = 1
    /\ a_attached[1].from = "triggered"
    /\ a_attached[1].to = "disarmed"


(***************************************************************************)
(* Properties of async_get_triggers.                                       *)
(***************************************************************************)
\* The entries of the registry that the listing of device d is about: of
\* the device, of the alarm_control_panel domain, with a current state.
Listed(d) ==
    {i \in 1..Len(Registry) :
        /\ Registry[i].device_id = d
        /\ Registry[i].domain = ALARM_DOMAIN
        /\ ~g_states[Registry[i].entity_id].none}

\* The bit m, a power of two, is set in the supported_features of state st.
BitSet(st, m) == st.has_features /\ (st.supported_features \div m) % 2 = 1

\* The types the claim gives an entity with state st.
TypesFor(st) ==
    {"disarmed", "triggered"}
    \cup (IF BitSet(st, SUPPORT_ALARM_ARM_HOME) THEN {"armed_home"} ELSE {})
    \cup (IF BitSet(st, SUPPORT_ALARM_ARM_AWAY) THEN {"armed_away"} ELSE {})
    \cup (IF BitSet(st, SUPPORT_ALARM_ARM_NIGHT) THEN {"armed_night"} ELSE {})

ReturnedTriggers == {g_last.triggers[i] : i \in 1..Len(g_last.triggers)}

\* C21: async_get_triggers for a device returns, for each of the device's
\* entities that belongs to the alarm_control_panel domain and has a current
\* state, the disarmed and triggered triggers always and each of armed_home,
\* armed_away, armed_night if and only if the corresponding bit is set in the
\* entity's supported_features; entities of other domains or without a state
\* contribute no trigger, and every returned type is a member of
\* TRIGGER_TYPES.
C21_GetTriggers ==
    g_last.called =>
        /\ g_last.raised = NoExc
        /\ \A i \in 1..Len(Registry), t \in TRIGGER_TYPES :
              DeviceTrigger(g_last.device_id, Registry[i].entity_id, t)
                    \in ReturnedTriggers
                <=> /\ i \in Listed(g_last.device_id)
                    /\ t \in TypesFor(g_states[Registry[i].entity_id])
        /\ \A tr \in ReturnedTriggers :
              /\ tr.type \in TRIGGER_TYPES
              /\ \E i \in Listed(g_last.device_id) :
                    tr = DeviceTrigger(g_last.device_id,
                                       Registry[i].entity_id, tr.type)

\* Every state that the listing of device d reads holds supported_features.
FeaturesKnown(d) ==
    \A i \in Listed(d) : g_states[Registry[i].entity_id].has_features

\* The statement of C21 for listings whose entities all carry the attribute
\* supported_features in their state.
GetTriggersFeaturesKnown == FeaturesKnown(g_last.device_id) => C21_GetTriggers

\* A device with two alarm panels of different features and a sensor, all
\* with a state, was listed: one panel got armed_night and not armed_home.
GetTriggersReached ==
    /\ g_last.called
    /\ g_last.raised = NoExc
    /\ Cardinality(Listed(g_last.device_id)) = 2
    /\ ~g_states["sensor.door"].none
    /\ \E i, j \in Listed(g_last.device_id) :
          /\ g_states[Registry[i].entity_id].supported_features
                # g_states[Registry[j].entity_id].supported_features
          /\ DeviceTrigger(g_last.device_id, Registry[i].entity_id,
                           "armed_night") \in ReturnedTriggers
          /\ DeviceTrigger(g_last.device_id, Registry[i].entity_id,
                           "armed_home") \notin ReturnedTriggers
    /\ \E k \in 1..Len(Registry) :
          /\ Registry[k].device_id # g_last.device_id
          /\ ~g_states[Registry[k].entity_id].none

\* A listing ended with KeyError: a listed entity's state has no
\* supported_features.
GetTriggersKeyError ==
    /\ g_last.called
    /\ g_last.raised = Exc("KeyError", "async_get_triggers")


(***************************************************************************)
(* Properties of the connected-clients sensor.                             *)
(***************************************************************************)
\* C22: the websocket connected-clients sensor's state is None until the
\* entity is added to the hub; once added, and after every handled connected
\* or disconnected signal, its state equals the hub's current connection
\* count (0 when no count is recorded) and a state update is scheduled for
\* each such signal.
C22_ConnectedClients ==
    /\ ~s_added => s_count = CountNone /\ s_sched = 0
    /\ s_added => s_sched = s_handled + 1
    /\ s_last \in {"added", "signal"} =>
          /\ ~s_count.none
          /\ s_count.n = (IF s_data.present THEN s_data.n ELSE 0)

\* The entity was added before any connection, and later a connected and a
\* disconnected signal were handled, the last with a connection open.
C22_Witness ==
    /\ s_last = "signal"
    /\ s_handled >= 2
    /\ s_sent > s_handled
    /\ s_count.n = 1
    /\ s_sched = 3

====
